---- MODULE Spec2Model ----
(***************************************************************************)
(* Verification model of the ScholarScribe document-structure pipeline:    *)
(*   - SectionRepository (section tree stored in the database, move and    *)
(*     reorder operations),                                                *)
(*   - DocumentProcessingService._process_sections (section-tree assembly),*)
(*   - StructuredPaperExtractor (markdown -> sections, references),        *)
(*   - DirectLlamaClient / LlamaParseClient (remote parsing adapter).      *)
(* Each component has its own specification over its own variables; the    *)
(* variables of the other components stay at their idle values.            *)
(***************************************************************************)
EXTENDS Integers, Sequences, FiniteSets, TLC

VARIABLES
    sections,   \* the sections table: id -> row, or NoSection when the id is unused
    lastCall,   \* the last repository call: [op, section_id, new_parent_id]
    ret,        \* what that call returned: "None", "Section", "hang" (it never returns) or "init"
    flat,       \* structured_data["sections"]: the flat section list handed to _process_sections
    stored,     \* what _process_sections did: [raised, created], created in creation order
    asmPc,      \* "input" before _process_sections has run, "done" after
    markdown,   \* StructuredPaperExtractor.lines: the markdown split at line breaks
    structured_data,  \* StructuredPaperExtractor.structured_data
    extPc,      \* "input" before extract() has run, "done" after
    cfg,        \* LlamaParseClient: api_key set, PyMuPDF and extractor importable, arguments
    direct,     \* DirectLlamaClient.parse_pdf: position, request counters, outcome
    response,   \* the answer of the result endpoint
    result,     \* the value DirectLlamaClient.parse_pdf returns
    lp,         \* LlamaParseClient.parse_pdf: position and outcome
    pdf,        \* the file at pdf_path and the pdftotext tool: what extract_text_from_pdf meets
    txt,        \* extract_text_from_pdf: position and the string returned
    ap,         \* AcademicPaperParser: imports, the PDF handle, position, the document returned
    documents,  \* the documents table: id -> row, or NoDocumentRow when the id is unused
    docCall,    \* the last document repository call: [op, document_id, returned]
    pd,         \* DocumentProcessingService.process_document: position, error, return value
    layout,     \* AcademicPaperParser.blocks: the text lines of the document, by their first span
    detected    \* AcademicPaperParser: position, self.sections, self.references

repoVars == <<sections, lastCall, ret>>
asmVars == <<flat, stored, asmPc>>
extVars == <<markdown, structured_data, extPc>>
remVars == <<cfg, direct, response, result, lp>>
parseVars == <<pdf, txt, ap>>
docVars == <<documents, docCall, pd>>
layoutVars == <<layout, detected>>

\* the variables of the other components, which an action of one leaves alone
exceptRepo == <<asmVars, extVars, remVars, parseVars, docVars, layoutVars>>
exceptAsm == <<repoVars, extVars, remVars, parseVars, docVars, layoutVars>>
exceptExt == <<repoVars, asmVars, remVars, parseVars, docVars, layoutVars>>
exceptRem == <<repoVars, asmVars, extVars, parseVars, docVars, layoutVars>>
exceptParse == <<repoVars, asmVars, extVars, remVars, docVars, layoutVars>>
exceptDoc == <<repoVars, asmVars, extVars, remVars, parseVars, layoutVars>>
exceptLayout == <<repoVars, asmVars, extVars, remVars, parseVars, docVars>>

(***************************************************************************)
(* Bounds                                                                  *)
(***************************************************************************)
MaxSections == 3      \* number of section ids the table can hold
MaxOrder == 2         \* largest new_order passed to move_section
MaxFlat == 4          \* longest flat section list
MaxLevel == 3         \* deepest heading level in a flat section list
MaxLines == 3         \* longest markdown input, in lines
MaxContentLines == 3  \* longest content of a result response, in lines
MaxChunks == 4        \* longest file content, in pieces
MaxTableLines == 5    \* lines of a markdown document with tables
MaxAbstractLines == 4 \* lines of a markdown document with an abstract
MaxLayoutLines == 4   \* text lines of a document laid out in blocks
MaxDocuments == 2     \* document ids
MaxViews == 3         \* views counted per document

(***************************************************************************)
(* SectionRepository                                                       *)
(***************************************************************************)
None == 0                         \* Python None for an id (parent_id of a root)
SectionIds == 1..MaxSections
NoSection == [exists |-> FALSE]

Exists(secs, id) == id \in SectionIds /\ secs[id].exists

\* a Section row: only the columns the tree operations read or write
SectionRow(parent_id, order) == [exists |-> TRUE, parent_id |-> parent_id, order |-> order]

\* primary-key lookup, self.get(db, id=...): the row or None
Get(secs, id) == IF Exists(secs, id) THEN secs[id] ELSE NoSection

\* uuid4(): an id not yet in the table (the smallest one, ids being interchangeable)
FreshIds(secs) == {id \in SectionIds : ~secs[id].exists}
NextId(secs) == CHOOSE id \in FreshIds(secs) : \A other \in FreshIds(secs) : id <= other

\* all orderings of a set of ids by ascending order column; rows with equal
\* order come back from ORDER BY in either sequence
RECURSIVE Perms(_)
Perms(S) ==
    IF S = {} THEN {<<>>}
    ELSE UNION {{<<x>> \o p : p \in Perms(S \ {x})} : x \in S}

OrderedBy(secs, S) ==
    {p \in Perms(S) : \A i \in 1..(Len(p) - 1) : secs[p[i]].order <= secs[p[i + 1]].order}

\* a repository call and the ids it was given
Call(op, section_id, new_parent_id) ==
    [op |-> op, section_id |-> section_id, new_parent_id |-> new_parent_id]

\* shapes of the sections_data argument of create_section_tree: one entry per
\* top-level section, giving the number of (leaf) children nested under it
MaxTop == 2
MaxChildren == 2
TreeShapes == UNION {[1..n -> 0..MaxChildren] : n \in 0..MaxTop}

RECURSIVE SumShape(_, _)
SumShape(shape, i) == IF i > Len(shape) THEN 0 ELSE 1 + shape[i] + SumShape(shape, i + 1)

\* the recursive call process_sections(children, section.id, 0) for n leaf children
RECURSIVE create_children(_, _, _, _)
create_children(secs, parent_id, n, j) ==
    IF j >= n THEN secs
    ELSE create_children([secs EXCEPT ![NextId(secs)] = SectionRow(parent_id, j)],
                         parent_id, n, j + 1)

\* process_sections(sections_list, parent_id=None, order_start=0): entry i gets
\* order order_start + i, then its children are created under it from order 0
RECURSIVE process_sections(_, _, _)
process_sections(secs, shape, i) ==
    IF i > Len(shape) THEN secs
    ELSE LET id == NextId(secs)
             withSection == [secs EXCEPT ![id] = SectionRow(None, i - 1)]
         IN process_sections(create_children(withSection, id, shape[i], 0), shape, i + 1)

CreateSectionTree(shape) ==
    /\ SumShape(shape, 1) <= Cardinality(FreshIds(sections))
    /\ sections' = process_sections(sections, shape, 1)
    /\ lastCall' = Call("create_section_tree", None, None)
    /\ ret' = "Section"
    /\ UNCHANGED exceptRepo

\* the ancestor walk of move_section (lines 151-160), started at
\* current_id = parent.parent_id:
\*   "circular" - current_id == section_id was met: the move is refused
\*   "clear"    - the walk ended at a root (current_id None) or at a missing row
\*   "hang"     - the walk is inside a parent cycle that does not contain
\*                section_id: the while loop never ends
\* A walk of more than MaxSections steps has visited some row twice, so it is
\* inside a cycle and never ends.
RECURSIVE AncestorWalk(_, _, _, _)
AncestorWalk(secs, current_id, section_id, steps) ==
    IF current_id = None THEN "clear"
    ELSE IF current_id = section_id THEN "circular"
    ELSE IF ~Exists(secs, current_id) THEN "clear"
    ELSE IF steps > MaxSections THEN "hang"
    ELSE AncestorWalk(secs, secs[current_id].parent_id, section_id, steps + 1)

\* for i, sibling in enumerate(old_siblings): sibling.order = i
RenumberOld(secs, sorted) ==
    [id \in SectionIds |->
        IF \E i \in 1..Len(sorted) : sorted[i] = id
        THEN [secs[id] EXCEPT !.order = (CHOOSE i \in 1..Len(sorted) : sorted[i] = id) - 1]
        ELSE secs[id]]

\* for i, sibling in enumerate(new_siblings): if i >= new_order: sibling.order = i + 1
ShiftNew(secs, sorted, new_order) ==
    [id \in SectionIds |->
        IF \E i \in 1..Len(sorted) : sorted[i] = id /\ (i - 1) >= new_order
        THEN [secs[id] EXCEPT !.order = CHOOSE i \in 1..Len(sorted) : sorted[i] = id]
        ELSE secs[id]]

\* rows with the given parent other than the moved section
SiblingsUnder(secs, parent_id, section_id) ==
    {id \in SectionIds : secs[id].exists /\ secs[id].parent_id = parent_id /\ id # section_id}

\* MoveCheck with the ancestor walk cut to its first comparison
\* (parent.parent_id == section_id), as if the while loop ran once
MoveCheckDirectOnly(secs, section_id, new_parent_id) ==
    IF ~Exists(secs, section_id) THEN "missing"
    ELSE IF new_parent_id = None THEN "move"
    ELSE IF ~Exists(secs, new_parent_id) THEN "missing"
    ELSE IF secs[new_parent_id].parent_id = section_id THEN "circular"
    ELSE "move"

\* the validation of move_section (lines 140-160): "missing" when the section
\* or the new parent is not in the table, "circular" when the walk meets
\* section_id, "hang" when the walk never ends, else "move"
MoveCheck(secs, section_id, new_parent_id) ==
    IF ~Exists(secs, section_id) THEN "missing"
    ELSE IF new_parent_id = None THEN "move"
    ELSE IF ~Exists(secs, new_parent_id) THEN "missing"
    ELSE LET walk == AncestorWalk(secs, secs[new_parent_id].parent_id, section_id, 1)
         IN IF walk = "clear" THEN "move" ELSE walk

MoveSection(section_id, new_parent_id, new_order) ==
    LET check == MoveCheck(sections, section_id, new_parent_id)
    IN
    /\ UNCHANGED exceptRepo
    /\ lastCall' = Call("move_section", section_id, new_parent_id)
    /\ CASE check \in {"missing", "circular"} ->
              /\ ret' = "None"
              /\ UNCHANGED sections
         [] check = "hang" ->
              /\ ret' = "hang"
              /\ UNCHANGED sections
         [] check = "move" ->
              LET old_parent_id == sections[section_id].parent_id
                  moved == [sections EXCEPT ![section_id] =
                               [@ EXCEPT !.parent_id = new_parent_id, !.order = new_order]]
              IN \E old_siblings \in OrderedBy(moved, SiblingsUnder(moved, old_parent_id, section_id)) :
                   LET afterOld == IF old_parent_id # None
                                   THEN RenumberOld(moved, old_siblings)
                                   ELSE moved
                   IN \E new_siblings \in OrderedBy(afterOld, SiblingsUnder(afterOld, new_parent_id, section_id)) :
                        /\ sections' = IF new_parent_id # None
                                       THEN ShiftNew(afterOld, new_siblings, new_order)
                                       ELSE afterOld
                        /\ ret' = "Section"

\* all_sections of get_section_tree (lines 51-54): the document's rows as
\* ORDER BY order may return them
AllSections(secs) == OrderedBy(secs, {id \in SectionIds : secs[id].exists})

\* root_sections (line 57)
TreeRoots(secs, all_sections) ==
    LET IsRoot(id) == secs[id].parent_id = None
    IN SelectSeq(all_sections, IsRoot)

\* sorted(children_by_parent[parent_id], key=order) (lines 60-65 and 70): the
\* sort is stable and all_sections is already in that order
ChildrenByParent(secs, all_sections, parent_id) ==
    LET IsChild(id) == secs[id].parent_id = parent_id
    IN SelectSeq(all_sections, IsChild)

\* add_children (lines 68-72): the section with its children attached, each
\* child with its own
RECURSIVE add_children(_, _, _)
add_children(secs, all_sections, id) ==
    LET children == ChildrenByParent(secs, all_sections, id)
    IN [id |-> id,
        children |-> [i \in 1..Len(children) |-> add_children(secs, all_sections, children[i])]]

\* get_section_tree (lines 43-78) for one result of the query
GetSectionTree(secs, all_sections) ==
    LET root_sections == TreeRoots(secs, all_sections)
    IN [i \in 1..Len(root_sections) |-> add_children(secs, all_sections, root_sections[i])]

NoCall == Call("init", None, None)
EmptyTable == [id \in SectionIds |-> NoSection]

RepoNext ==
    \/ \E shape \in TreeShapes : CreateSectionTree(shape)
    \/ \E section_id \in SectionIds, new_parent_id \in SectionIds \cup {None},
          new_order \in 0..MaxOrder :
            MoveSection(section_id, new_parent_id, new_order)

(***************************************************************************)
(* DocumentProcessingService._process_sections                             *)
(***************************************************************************)
Titles == {"T1", "T2", "T3", "T4"}    \* the section titles a flat list draws from
Levels == 1..MaxLevel
Absent == "<absent>"              \* a key that a dict does not hold

\* an entry of structured_data["sections"]; its content is modelled by the
\* entry's position in the list, so that all contents differ
FlatSection(title, level) == [title |-> title, level |-> level]

\* section_map[title] after the first pass: the section_data built from the
\* last entry with that title (a later entry replaces an earlier one)
SectionMap(input, title) ==
    LET having == {i \in 1..Len(input) : input[i].title = title}
    IN CHOOSE i \in having : \A j \in having : j <= i

\* the keys of section_map in insertion order: titles by first occurrence
RECURSIVE SectionMapKeys(_, _)
SectionMapKeys(input, i) ==
    IF i > Len(input) THEN <<>>
    ELSE IF \E j \in 1..(i - 1) : input[j].title = input[i].title
         THEN SectionMapKeys(input, i + 1)
         ELSE <<input[i].title>> \o SectionMapKeys(input, i + 1)

\* root_sections: the section_data of every entry of level 1, in list order
RECURSIVE RootSections(_, _)
RootSections(input, i) ==
    IF i > Len(input) THEN <<>>
    ELSE IF input[i].level = 1 THEN <<i>> \o RootSections(input, i + 1)
         ELSE RootSections(input, i + 1)

\* one round of the second pass with last_section_by_level never replaced
\* once set (the first section seen at a level stays the parent candidate)
AssignParentFirstSeen(input, i, st) ==
    LET title == input[i].title
        level == input[i].level
        found == level > 1 /\ st.last_section_by_level[level - 1] # Absent
    IN [last_section_by_level |->
            IF st.last_section_by_level[level] = Absent
            THEN [st.last_section_by_level EXCEPT ![level] = title]
            ELSE st.last_section_by_level,
        parent_id_key |->
            IF found
            THEN [st.parent_id_key EXCEPT ![SectionMap(input, title)] =
                      st.last_section_by_level[level - 1]]
            ELSE st.parent_id_key]

\* one round of the second pass (lines 215-229): the entry gets as
\* parent_id_key the title last seen one level up, stored in the section_data
\* that section_map holds for the entry's title; then the entry's title
\* becomes the last seen at its level.  parent_data is a non-empty dict
\* whenever the title is a key of section_map, which it is for every title of
\* the list.
AssignParent(input, i, st) ==
    LET title == input[i].title
        level == input[i].level
        found == level > 1 /\ st.last_section_by_level[level - 1] # Absent
    IN [last_section_by_level |-> [st.last_section_by_level EXCEPT ![level] = title],
        parent_id_key |->
            IF found
            THEN [st.parent_id_key EXCEPT ![SectionMap(input, title)] =
                      st.last_section_by_level[level - 1]]
            ELSE st.parent_id_key]

RECURSIVE SecondPass(_, _, _)
SecondPass(input, i, st) ==
    IF i > Len(input) THEN st.parent_id_key
    ELSE SecondPass(input, i + 1, AssignParent(input, i, st))

ParentIdKeys(input) ==
    SecondPass(input, 1,
               [last_section_by_level |-> [l \in Levels |-> Absent],
                parent_id_key |-> [i \in 1..Len(input) |-> Absent]])

\* section_repository.create(db, obj_in=section_data): the new row gets the
\* next id; section_id_map[title] = section.id
CreateRow(acc, input, i, parent_id) ==
    LET id == Len(acc.created) + 1
    IN [acc EXCEPT
          !.created = Append(@, [id |-> id, title |-> input[i].title,
                                 level |-> input[i].level, content |-> i,
                                 order |-> i - 1, parent_id |-> parent_id]),
          !.section_id_map = [@ EXCEPT ![input[i].title] = id]]

\* lines 237-240.  A root section_data that still carries a parent_id_key (set
\* in the second pass through a later non-root entry with the same title) is
\* handed to the Section constructor with a keyword it does not have: the
\* constructor raises.
RECURSIVE CreateRootSections(_, _, _, _, _)
CreateRootSections(input, key, roots, k, acc) ==
    IF k > Len(roots) THEN acc
    ELSE IF key[roots[k]] # Absent THEN [acc EXCEPT !.raised = TRUE]
    ELSE CreateRootSections(input, key, roots, k + 1, CreateRow(acc, input, roots[k], None))

\* lines 243-257: the entries of section_map in insertion order, roots skipped
RECURSIVE CreateChildSections(_, _, _, _, _)
CreateChildSections(input, key, keys, k, acc) ==
    IF k > Len(keys) THEN acc
    ELSE LET i == SectionMap(input, keys[k])
             parent_title == key[i]
             parent_id == IF parent_title # Absent /\ acc.section_id_map[parent_title] # None
                          THEN acc.section_id_map[parent_title]
                          ELSE None
         IN IF input[i].level = 1
            THEN CreateChildSections(input, key, keys, k + 1, acc)
            ELSE CreateChildSections(input, key, keys, k + 1,
                                     CreateRow(acc, input, i, parent_id))

ProcessSections(input) ==
    LET key == ParentIdKeys(input)
        start == [raised |-> FALSE, created |-> <<>>,
                  section_id_map |-> [t \in Titles |-> None]]
        roots == CreateRootSections(input, key, RootSections(input, 1), 1, start)
        all == IF roots.raised THEN roots
               ELSE CreateChildSections(input, key, SectionMapKeys(input, 1), 1, roots)
    IN [raised |-> all.raised, created |-> all.created]

NotRun == [raised |-> FALSE, created |-> <<>>]

\* the extractor adds one more section to structured_data["sections"]
AppendSection(title, level) ==
    /\ asmPc = "input"
    /\ Len(flat) < MaxFlat
    /\ flat' = Append(flat, FlatSection(title, level))
    /\ UNCHANGED <<stored, asmPc, exceptAsm>>

RunProcessSections ==
    /\ asmPc = "input"
    /\ stored' = ProcessSections(flat)
    /\ asmPc' = "done"
    /\ UNCHANGED <<flat, exceptAsm>>

(***************************************************************************)
(* StructuredPaperExtractor                                                *)
(*                                                                         *)
(* A line of text is a sequence of tokens.  A token stands for the text it *)
(* spells: one character ("#", " ", ".", "[", "]", a digit, a letter) or a *)
(* run of text that the extractor never looks into ("Smith et al. Title.").*)
(***************************************************************************)
MarkdownLines ==
    { <<>>,                                           \* a blank line
      <<"#", " ", "A">>,                              \* # A
      <<"#", "#", " ", "A">>,                         \* ## A
      <<"#", "#", " ", "B">>,                         \* ## B
      <<"#", "#", "#", " ", "C">>,                    \* ### C
      <<"#", " ", "A", " ", "B">>,                    \* # A B
      <<"#">>,                                        \* a heading without a title
      <<"text">>,                                     \* a body line
      <<"#", " ", "References">>,                     \* # References
      <<"References", " ", "text">>,                  \* a body line starting with References
      <<"1", ".", " ", "Smith et al. Title.">>,       \* 1. Smith et al. Title.
      <<"continued text.">>,                          \* continued text.
      <<"[", "2", "]", " ", "Jones.">>,               \* [2] Jones.
      <<"1", ".", "Smith">> }                         \* 1.Smith

IsSpace(tok) == tok = " "
IsDigit(tok) == tok \in {"0", "1", "2", "3", "4", "5", "6", "7", "8", "9"}
\* \w: a token that is part of a word
IsWordToken(tok) == tok \notin {" ", "#", ".", "[", "]", ":", "|", "-"}
\* str.lower(), for the words the extractor compares without case
Lower(tok) ==
    CASE tok \in {"References", "REFERENCES"} -> "references"
      [] OTHER -> tok

\* the number of tokens from position i on for which the line keeps holding tok
RECURSIVE CountLeading(_, _, _)
CountLeading(line, tok, i) ==
    IF i <= Len(line) /\ line[i] = tok THEN 1 + CountLeading(line, tok, i + 1) ELSE 0

RECURSIVE CountDigits(_, _)
CountDigits(line, i) ==
    IF i <= Len(line) /\ IsDigit(line[i]) THEN 1 + CountDigits(line, i + 1) ELSE 0

\* str.strip(): leading and trailing whitespace removed
Strip(line) ==
    LET inked == {i \in 1..Len(line) : ~IsSpace(line[i])}
    IN IF inked = {} THEN <<>>
       ELSE SubSeq(line, CHOOSE i \in inked : \A j \in inked : i <= j,
                         CHOOSE i \in inked : \A j \in inked : j <= i)

\* sub in line
Contains(line, sub) ==
    \E i \in 0..(Len(line) - Len(sub)) : \A j \in 1..Len(sub) : line[i + j] = sub[j]

\* line.startswith('#')
StartsWithHash(line) == Len(line) > 0 /\ line[1] = "#"

\* _get_heading_level (lines 183-202): the number of leading '#' of the first
\* line that starts with '#' and contains heading_text; 1 when there is none
GetHeadingLevel(lines, heading_text) ==
    LET hits == {i \in 1..Len(lines) : StartsWithHash(lines[i]) /\ Contains(lines[i], heading_text)}
    IN IF hits = {} THEN 1
       ELSE CountLeading(lines[CHOOSE i \in hits : \A j \in hits : i <= j], "#", 1)

\* A section whose level is not looked up in the markdown
SectionOfNoLevel(lines, current_section, current_content) ==
    [title |-> current_section, content |-> current_content, level |-> 0]

\* the section appended at lines 154-158 and 175-179
SectionOf(lines, current_section, current_content) ==
    [title |-> current_section, content |-> current_content,
     level |-> GetHeadingLevel(lines, current_section)]

\* _extract_sections (lines 144-181), from line i on.  current_section is the
\* stripped text after the '#' run; the empty sequence stands both for None
\* and for '' (python treats both as false).
RECURSIVE ExtractSections(_, _, _, _, _)
ExtractSections(lines, i, current_section, current_content, acc) ==
    IF i > Len(lines)
    THEN IF current_section # <<>>
         THEN Append(acc, SectionOf(lines, current_section, current_content))
         ELSE acc
    ELSE LET line == lines[i]
             heading_level == CountLeading(line, "#", 1)
         IN IF StartsWithHash(line)
            THEN ExtractSections(lines, i + 1,
                     Strip(SubSeq(line, heading_level + 1, Len(line))),
                     IF current_section # <<>> THEN <<>> ELSE current_content,
                     IF current_section # <<>>
                     THEN Append(acc, SectionOf(lines, current_section, current_content))
                     ELSE acc)
            ELSE IF current_section # <<>> /\ Strip(line) # <<>>
            THEN ExtractSections(lines, i + 1, current_section,
                                 Append(current_content, line), acc)
            ELSE ExtractSections(lines, i + 1, current_section, current_content, acc)

\* re.match(r'^#+\s+References\b', line, re.IGNORECASE) or
\* re.match(r'^References\b', line, re.IGNORECASE)
IsReferencesHeading(line) ==
    LET hashes == CountLeading(line, "#", 1)
        spaces == CountLeading(line, " ", hashes + 1)
        word   == IF hashes = 0 THEN 1 ELSE hashes + spaces + 1
    IN /\ hashes = 0 \/ spaces >= 1
       /\ word <= Len(line)
       /\ Lower(line[word]) = "references"
       /\ word = Len(line) \/ ~IsWordToken(line[word + 1])

\* re.match(r'^\d+\.?\s+', line) or re.match(r'^\[\d+\]\s+', line)
IsNumberedReference(line) ==
    \/ LET digits == CountDigits(line, 1)
            dot    == IF digits + 1 <= Len(line) /\ line[digits + 1] = "." THEN 1 ELSE 0
        IN /\ digits >= 1
           /\ CountLeading(line, " ", digits + dot + 1) >= 1
    \/ LET digits == CountDigits(line, 2)
        IN /\ Len(line) >= 1 /\ line[1] = "["
           /\ digits >= 1
           /\ digits + 2 <= Len(line) /\ line[digits + 2] = "]"
           /\ CountLeading(line, " ", digits + 3) >= 1

\* references[-1] += ' ' + line.strip()
AppendToLast(references, line) ==
    [references EXCEPT ![Len(references)] = @ \o <<" ">> \o Strip(line)]

\* _extract_references (lines 204-226), from line i on
RECURSIVE ExtractReferences(_, _, _, _)
ExtractReferences(lines, i, in_references, references) ==
    IF i > Len(lines) THEN references
    ELSE LET line == lines[i]
         IN IF IsReferencesHeading(line)
            THEN ExtractReferences(lines, i + 1, TRUE, references)
            ELSE IF in_references /\ StartsWithHash(line)
            THEN references
            ELSE IF in_references /\ Strip(line) # <<>>
            THEN IF IsNumberedReference(line)
                 THEN ExtractReferences(lines, i + 1, in_references,
                                        Append(references, Strip(line)))
                 ELSE IF references # <<>>
                 THEN ExtractReferences(lines, i + 1, in_references,
                                        AppendToLast(references, line))
                 ELSE ExtractReferences(lines, i + 1, in_references, references)
            ELSE ExtractReferences(lines, i + 1, in_references, references)

\* lines that _extract_figures_and_tables tells apart
TableLines ==
    { <<>>,                                           \* a blank line
      <<" ">>,                                        \* a line of whitespace
      <<"Table", " ", "1", ":", " ", "Results">>,     \* Table 1: Results
      <<"Notable", ":", " ", "B", ":", "C">>,         \* Notable: B:C
      <<"|", "a", "|">>,                              \* |a|
      <<" ", "|", "b", "|", " ">>,                    \*  |b| with blanks around it
      <<"text">>,                                     \* a body line
      <<"|", "Table", ":", "x", "|">> }               \* |Table:x|

\* 'table' in tok.lower()
HoldsTable(tok) == tok \in {"Table", "table", "TABLE", "Notable"}

\* 'table' in line.lower() and ':' in line
IsTableCaption(line) ==
    /\ \E i \in 1..Len(line) : HoldsTable(line[i])
    /\ Contains(line, <<":">>)

\* line.split(':', 1)[1].strip()
AfterColon(line) ==
    LET colons == {i \in 1..Len(line) : line[i] = ":"}
        first  == CHOOSE i \in colons : \A j \in colons : i <= j
    IN Strip(SubSeq(line, first + 1, Len(line)))

\* '\n'.join(rows), from row i on
RECURSIVE JoinRows(_, _)
JoinRows(rows, i) ==
    IF i > Len(rows) THEN <<>>
    ELSE IF i = Len(rows) THEN rows[i]
    ELSE rows[i] \o <<"\n">> \o JoinRows(rows, i + 1)

\* the dict appended at lines 269-272 and 279-282
TableOf(table_caption, current_table) ==
    [caption |-> table_caption, content |-> JoinRows(current_table, 1)]

\* the table loop of _extract_figures_and_tables (lines 253-283), from line i
\* on; the empty sequence stands for the caption None
RECURSIVE ExtractTables(_, _, _, _, _, _)
ExtractTables(lines, i, in_table, current_table, table_caption, tables) ==
    IF i > Len(lines)
    THEN IF in_table /\ current_table # <<>>
         THEN Append(tables, TableOf(table_caption, current_table))
         ELSE tables
    ELSE LET line == lines[i]
         IN IF IsTableCaption(line)
            THEN ExtractTables(lines, i + 1, TRUE, <<>>, AfterColon(line), tables)
            ELSE IF in_table /\ Contains(line, <<"|">>)
            THEN ExtractTables(lines, i + 1, in_table,
                               Append(current_table, Strip(line)), table_caption, tables)
            ELSE IF in_table /\ Strip(line) = <<>> /\ current_table # <<>>
            THEN ExtractTables(lines, i + 1, FALSE, <<>>, <<>>,
                               Append(tables, TableOf(table_caption, current_table)))
            ELSE ExtractTables(lines, i + 1, in_table, current_table, table_caption, tables)

\* lines that _extract_abstract tells apart
AbstractLines ==
    { <<>>,                                                   \* a blank line
      <<"Abstract", ":", " ", "We study X.">>,                \* Abstract: We study X.
      <<"abstract", ":">>,                                    \* abstract:
      <<"**", "Abstract", ":", "**", " ", "We study X.">>,    \* **Abstract:** We study X.
      <<" ", "more text.">>,                                  \* an indented body line
      <<"#", " ", "Introduction">>,                           \* # Introduction
      <<"#", " ", "Abstract">> }                              \* # Abstract

\* tok.lower() == 'abstract'
IsAbstractWord(tok) == tok \in {"Abstract", "abstract", "ABSTRACT"}

\* re.match(r'^#+\s+Abstract\b', line, re.IGNORECASE) or
\* re.match(r'^Abstract\b', line, re.IGNORECASE)
IsAbstractHeading(line) ==
    LET hashes == CountLeading(line, "#", 1)
        spaces == CountLeading(line, " ", hashes + 1)
        word   == IF hashes = 0 THEN 1 ELSE hashes + spaces + 1
    IN /\ hashes = 0 \/ spaces >= 1
       /\ word <= Len(line)
       /\ IsAbstractWord(line[word])
       /\ word = Len(line) \/ ~IsWordToken(line[word + 1])

\* line.lower().startswith('abstract:') or
\* line.lower().startswith('**abstract:**')
IsAbstractLabel(line) ==
    \/ Len(line) >= 2 /\ IsAbstractWord(line[1]) /\ line[2] = ":"
    \/ Len(line) >= 4 /\ line[1] = "**" /\ IsAbstractWord(line[2]) /\ line[3] = ":" /\ line[4] = "**"

\* the first loop of _extract_abstract (lines 112-121), from line i on
RECURSIVE AbstractByHeading(_, _, _, _)
AbstractByHeading(lines, i, in_abstract, abstract_lines) ==
    IF i > Len(lines) THEN abstract_lines
    ELSE LET line == lines[i]
         IN IF IsAbstractHeading(line)
            THEN AbstractByHeading(lines, i + 1, TRUE, abstract_lines)
            ELSE IF in_abstract /\ StartsWithHash(line) THEN abstract_lines
            ELSE IF in_abstract /\ Strip(line) # <<>>
            THEN AbstractByHeading(lines, i + 1, in_abstract, Append(abstract_lines, Strip(line)))
            ELSE AbstractByHeading(lines, i + 1, in_abstract, abstract_lines)

\* the while loop of lines 134-137, from line j on
RECURSIVE LinesUntilBreak(_, _, _)
LinesUntilBreak(lines, j, abstract_lines) ==
    IF j <= Len(lines) /\ ~StartsWithHash(lines[j]) /\ Strip(lines[j]) # <<>>
    THEN LinesUntilBreak(lines, j + 1, Append(abstract_lines, Strip(lines[j])))
    ELSE abstract_lines

\* the second loop (lines 124-138): the first labelled line and what follows it
AbstractByLabel(lines) ==
    LET hits == {i \in 1..Len(lines) : IsAbstractLabel(lines[i])}
    IN IF hits = {} THEN <<>>
       ELSE LET i == CHOOSE h \in hits : \A other \in hits : h <= other
                abstract_part == AfterColon(lines[i])
            IN LinesUntilBreak(lines, i + 1,
                               IF abstract_part # <<>> THEN <<abstract_part>> ELSE <<>>)

\* ' '.join(parts), from part i on
RECURSIVE JoinSpaced(_, _)
JoinSpaced(parts, i) ==
    IF i > Len(parts) THEN <<>>
    ELSE IF i = Len(parts) THEN parts[i]
    ELSE parts[i] \o <<" ">> \o JoinSpaced(parts, i + 1)

\* _extract_abstract (lines 106-142); the empty sequence stands for None
ExtractAbstract(lines) ==
    LET by_heading == AbstractByHeading(lines, 1, FALSE, <<>>)
        abstract_lines == IF by_heading = <<>> THEN AbstractByLabel(lines) ELSE by_heading
    IN JoinSpaced(abstract_lines, 1)

\* structured_data as __init__ leaves it (lines 26-36), for the keys modelled
NotExtracted == [sections |-> <<>>, references |-> <<>>, tables |-> <<>>, abstract |-> <<>>]

\* one more line of a markdown_content with an abstract in it
AppendAbstractLine(line) ==
    /\ extPc = "input"
    /\ Len(markdown) < MaxAbstractLines
    /\ markdown' = Append(markdown, line)
    /\ UNCHANGED <<structured_data, extPc, exceptExt>>

\* one more line of a markdown_content with tables in it
AppendTableLine(line) ==
    /\ extPc = "input"
    /\ Len(markdown) < MaxTableLines
    /\ markdown' = Append(markdown, line)
    /\ UNCHANGED <<structured_data, extPc, exceptExt>>

\* one more line of markdown_content
AppendLine(line) ==
    /\ extPc = "input"
    /\ Len(markdown) < MaxLines
    /\ markdown' = Append(markdown, line)
    /\ UNCHANGED <<structured_data, extPc, exceptExt>>

\* extract() (lines 38-53): the passes write different keys of structured_data
\* and read only self.lines
Extract ==
    /\ extPc = "input"
    /\ structured_data' =
          [sections   |-> ExtractSections(markdown, 1, <<>>, <<>>, <<>>),
           references |-> ExtractReferences(markdown, 1, FALSE, <<>>),
           tables     |-> ExtractTables(markdown, 1, FALSE, <<>>, <<>>, <<>>),
           abstract   |-> ExtractAbstract(markdown)]
    /\ extPc' = "done"
    /\ UNCHANGED <<markdown, exceptExt>>

(***************************************************************************)
(* DirectLlamaClient.parse_pdf                                             *)
(***************************************************************************)
max_polls == 30
OutputFormats == {"markdown", "text", "json", "html"}

\* what the job-status endpoint can answer: a status the client knows as
\* success or failure, one it does not know, or no status key at all ("none")
Statuses == {"PENDING", "SUCCESS", "completed", "failed", "error", "FAILED",
             "COMPLETED", "none"}

\* pc: where parse_pdf stands; polls, result_requests: the requests sent to
\* the status and the result endpoint; pending_seen: how many status answers
\* were neither success nor failure; last_status: the last status answer;
\* outcome: "returned" or the error raised
DirectIdle == [pc |-> "idle", polls |-> 0, pending_seen |-> 0, last_status |-> "none",
               result_requests |-> 0, outcome |-> "none"]
NoResponse == [kind |-> "none"]
NoResult == [kind |-> "none"]
StrResult(lines) == [kind |-> "str", lines |-> lines]

\* the lines a result content is made of (tokens as for the markdown lines);
\* "I'm sorry", "I apologize", "I CAN'T ASSIST" stand for refusal phrases
ResponseLines ==
    { <<>>,
      <<"text">>,
      <<"I'm sorry", ", but ", "I CAN'T ASSIST", " with that">>,
      <<"more text">>,
      <<"#", " ", "A">>,
      <<" ", "---", " ">>,
      <<"#", " ", "I apologize">> }

\* str.lower() of the phrases the client looks for
LowerPhrase(tok) ==
    CASE tok = "I'm sorry" -> "i'm sorry"
      [] tok = "I CAN'T ASSIST" -> "i can't assist"
      [] tok = "I apologize" -> "i apologize"
      [] OTHER -> tok

RefusalPatterns == {"i'm sorry", "i can't assist", "i cannot assist", "i apologize",
                    "can't help", "cannot help"}

\* any(pattern in line.lower() for pattern in [...]) (lines 202-209); a phrase
\* is one token of the line
ContainsRefusal(line) == \E i \in 1..Len(line) : LowerPhrase(line[i]) \in RefusalPatterns

\* The filter with lines 212-214 left out: nothing ends the skipping
RECURSIVE CleanLinesNoReset(_, _, _, _)
CleanLinesNoReset(lines, i, skip_section, cleaned_lines) ==
    IF i > Len(lines) THEN cleaned_lines
    ELSE IF ContainsRefusal(lines[i])
    THEN CleanLinesNoReset(lines, i + 1, TRUE, cleaned_lines)
    ELSE CleanLinesNoReset(lines, i + 1, skip_section,
                           IF skip_section THEN cleaned_lines
                           ELSE Append(cleaned_lines, lines[i]))

\* lines 200-219, from line i on
RECURSIVE CleanLines(_, _, _, _)
CleanLines(lines, i, skip_section, cleaned_lines) ==
    IF i > Len(lines) THEN cleaned_lines
    ELSE LET line == lines[i]
             skip == IF Strip(line) = <<"---">> \/ StartsWithHash(line)
                     THEN FALSE ELSE skip_section
         IN IF ContainsRefusal(line)
            THEN CleanLines(lines, i + 1, TRUE, cleaned_lines)
            ELSE CleanLines(lines, i + 1, skip,
                            IF skip THEN cleaned_lines ELSE Append(cleaned_lines, line))

\* len(str): the characters of the tokens and the line breaks between lines
RECURSIVE LineLength(_, _)
LineLength(line, i) == IF i > Len(line) THEN 0 ELSE Len(line[i]) + LineLength(line, i + 1)
RECURSIVE TextLength(_, _)
TextLength(lines, i) ==
    IF i > Len(lines) THEN 0
    ELSE LineLength(lines[i], 1) + (IF i < Len(lines) THEN 1 ELSE 0) + TextLength(lines, i + 1)

\* json.dumps of a string: one line, quoted, line breaks written as \n
RECURSIVE JoinEscaped(_, _)
JoinEscaped(lines, i) ==
    IF i > Len(lines) THEN <<>>
    ELSE lines[i] \o (IF i < Len(lines) THEN <<"\\n">> ELSE <<>>) \o JoinEscaped(lines, i + 1)

DumpValue(value) ==
    CASE value.kind = "str"  -> <<"\"">> \o JoinEscaped(value.lines, 1) \o <<"\"">>
      [] value.kind = "list" -> <<"[", "]">>
      [] value.kind = "null" -> <<"null">>

\* json.dumps(data, indent=2) of the parsed body
DumpJson(r) ==
    IF r.kind = "json_string"
    THEN << DumpValue(r.value) >>
    ELSE << <<"{">>,
            <<"  ", "\"", r.key, "\"", ":", " ">> \o DumpValue(r.value),
            <<"}">> >>

\* the result endpoint's answers:
\*   http_error  - raise_for_status() raises
\*   raw_text    - a body that is not JSON
\*   json_string - a JSON string
\*   json_dict   - a JSON object holding value under key
\* a JSON value is a string (its lines), a list or null
ResponseKeys == {"markdown", "text", "content"}
StrValue(lines) == [kind |-> "str", lines |-> lines]
RawText(lines) == [kind |-> "raw_text", value |-> StrValue(lines)]
JsonString(lines) == [kind |-> "json_string", value |-> StrValue(lines)]
JsonDict(key, value) == [kind |-> "json_dict", key |-> key, value |-> value]
HttpError == [kind |-> "http_error"]

Contents(n) == UNION { [1..k -> ResponseLines] : k \in 1..n }
Responses(n) ==
    {HttpError}
    \cup { RawText(c) : c \in Contents(n) }
    \cup { JsonString(c) : c \in Contents(n) }
    \cup { JsonDict(k, StrValue(c)) : k \in ResponseKeys, c \in Contents(n) }
    \cup { JsonDict(k, [kind |-> v]) : k \in ResponseKeys, v \in {"list", "null"} }

\* lines 168-191: what is taken as the result out of the parsed JSON body
SelectResult(output_format, r) ==
    IF r.kind = "json_dict" /\ r.key = output_format THEN r.value
    ELSE IF r.kind = "json_dict" /\ r.key = "markdown" /\ output_format = "markdown"
    THEN r.value
    ELSE IF r.kind = "json_string" /\ TextLength(r.value.lines, 1) > 10
    THEN r.value
    ELSE StrValue(DumpJson(r))

\* lines 163-232 for a body received with status 200: the value parse_pdf
\* returns, or "raised" when an exception leaves parse_pdf.
\*   json format: json.dumps(result_response.json()); a body that is not JSON
\*     raises.
\*   other formats: a body that is not JSON is caught (line 228) and returned
\*     as it is; a JSON body goes through SelectResult and, when a string and
\*     the format is markdown or text, through the refusal filter.  Line 226
\*     takes len(result) and result.count(): null has no len() and the
\*     TypeError is not caught; a list has both and is returned.
ProcessResult(output_format, r) ==
    IF output_format = "json"
    THEN IF r.kind = "raw_text" THEN [kind |-> "raised"]
         ELSE StrResult(DumpJson(r))
    ELSE IF r.kind = "raw_text" THEN StrResult(r.value.lines)
    ELSE LET selected == SelectResult(output_format, r)
         IN IF selected.kind = "str"
            THEN IF output_format \in {"markdown", "text"}
                 THEN StrResult(CleanLines(selected.lines, 1, FALSE, <<>>))
                 ELSE StrResult(selected.lines)
            ELSE IF selected.kind = "list" THEN [kind |-> "list"]
            ELSE [kind |-> "raised"]

UploadAnswers == {"ok", "upload_error", "no_job_id"}

\* lines 57-97: open the file, post it, read the job id
Upload(answer) ==
    /\ direct.pc = "upload"
    /\ direct' = IF answer = "ok"
                 THEN [direct EXCEPT !.pc = "poll"]
                 ELSE [direct EXCEPT !.pc = "done", !.outcome = answer]
    /\ UNCHANGED <<cfg, response, result, lp, exceptRem>>

\* the poll loop with the for-else of line 137 left out: when the polls are
\* used up the client goes on to fetch the result
AfterStatusNoTimeout(status, i) ==
    IF status \in {"SUCCESS", "completed"} THEN "break"
    ELSE IF status \in {"failed", "error", "FAILED"} THEN "job_failed"
    ELSE IF i < max_polls - 1 THEN "continue"
    ELSE "break"

\* the poll loop that knows SUCCESS only: completed is taken as still running
AfterStatusUpperOnly(status, i) ==
    IF status = "SUCCESS" THEN "break"
    ELSE IF status \in {"failed", "error", "FAILED"} THEN "job_failed"
    ELSE IF i < max_polls - 1 THEN "continue"
    ELSE "timeout"

\* one round of the poll loop after the status was read (lines 126-139), i
\* being the loop index: leave the loop, raise, go round again, or fall out
\* of the loop into its else branch
AfterStatus(status, i) ==
    IF status \in {"SUCCESS", "completed"} THEN "break"
    ELSE IF status \in {"failed", "error", "FAILED"} THEN "job_failed"
    ELSE IF i < max_polls - 1 THEN "continue"
    ELSE "timeout"

\* the statuses after which the job is neither done nor failed
NonTerminal(status) ==
    status \notin {"SUCCESS", "completed", "failed", "error", "FAILED"}

\* lines 105-139, one round: the status request and what follows from its
\* answer; "http_error" is a request that raises (raise_for_status)
Poll(answer) ==
    /\ direct.pc = "poll"
    /\ LET i == direct.polls
           asked == [direct EXCEPT !.polls = @ + 1,
                                   !.last_status = answer,
                                   !.pending_seen =
                                       IF answer # "http_error" /\ NonTerminal(answer)
                                       THEN @ + 1 ELSE @]
           next == IF answer = "http_error" THEN "status_error"
                   ELSE AfterStatus(answer, i)
       IN direct' = CASE next = "break"    -> [asked EXCEPT !.pc = "fetch"]
                      [] next = "continue" -> asked
                      [] OTHER             -> [asked EXCEPT !.pc = "done", !.outcome = next]
    /\ UNCHANGED <<cfg, response, result, lp, exceptRem>>

\* lines 141-237: the result request and the processing of its answer
ReceiveResult(r) ==
    /\ direct.pc = "fetch"
    /\ response' = r
    /\ LET processed == IF r.kind = "http_error" THEN [kind |-> "raised"]
                        ELSE ProcessResult(cfg.output_format, r)
       IN /\ result' = IF processed.kind = "raised" THEN NoResult ELSE processed
          /\ direct' = [direct EXCEPT !.pc = "done",
                                      !.result_requests = @ + 1,
                                      !.outcome = IF processed.kind = "raised"
                                                  THEN "result_error" ELSE "returned"]
    /\ UNCHANGED <<cfg, lp, exceptRem>>

(***************************************************************************)
(* LlamaParseClient.parse_pdf                                              *)
(***************************************************************************)
Configs == [api_key : BOOLEAN, has_pymupdf : BOOLEAN, has_extractor : BOOLEAN,
            output_format : OutputFormats, return_structured : BOOLEAN]
NoConfig == [api_key |-> FALSE, has_pymupdf |-> FALSE, has_extractor |-> FALSE,
             output_format |-> "markdown", return_structured |-> FALSE]

\* pc: where parse_pdf stands; package: how the official llama_parse package
\* did; outcome: "returned" or "raised"; by: the method whose document is
\* returned; shape: a (text, structured_data) pair or the text alone
LpIdle == [pc |-> "idle", package |-> "none", outcome |-> "none", by |-> "none",
           shape |-> "none"]

\* lines 130-141, 205-216 and 256-267: extract_structured_data splits its
\* argument into lines, which only a string allows; its failure is caught and
\* the text returned alone
ReturnShape(c, is_str) ==
    IF c.return_structured /\ c.output_format \in {"markdown", "text"}
       /\ c.has_extractor /\ is_str
    THEN "pair" ELSE "single"

Returned(by, shape) == [lp EXCEPT !.pc = "done", !.outcome = "returned",
                                  !.by = by, !.shape = shape]

\* lines 108-110 and 221-227: with an API key the direct client is tried;
\* without one the ValueError of line 223 is caught at line 225
StartParse ==
    /\ lp.pc = "start"
    /\ IF cfg.api_key
       THEN /\ lp' = [lp EXCEPT !.pc = "direct"]
            /\ direct' = [direct EXCEPT !.pc = "upload"]
       ELSE /\ lp' = [lp EXCEPT !.pc = "local"]
            /\ UNCHANGED direct
    /\ UNCHANGED <<cfg, response, result, exceptRem>>

\* lines 120-145: the direct client has returned or raised
DirectFinished ==
    /\ lp.pc = "direct"
    /\ direct.pc = "done"
    /\ lp' = IF direct.outcome = "returned"
             THEN Returned("direct", ReturnShape(cfg, result.kind = "str"))
             ELSE [lp EXCEPT !.pc = "package"]
    /\ UNCHANGED <<cfg, direct, response, result, exceptRem>>

\* what the official package can do: not be installed or fail ("error"),
\* return no document, or return a document with its text
PackageAnswers == {"error", "no_documents", "document"}

\* lines 147-220: the official package; any failure is raised again at line
\* 220 and caught at line 225
PackageAttempt(answer) ==
    /\ lp.pc = "package"
    /\ lp' = IF answer = "document"
             THEN [Returned("package", ReturnShape(cfg, TRUE)) EXCEPT !.package = "returned"]
             ELSE [lp EXCEPT !.pc = "local", !.package = "failed"]
    /\ UNCHANGED <<cfg, direct, response, result, exceptRem>>

\* the decision of lines 230-274 with the local parser never tried
AfterLlamaParseErrorNoFallback(has_pymupdf) == "raise"

\* lines 230 and 272-274: what follows a failure of the remote methods
AfterLlamaParseError(has_pymupdf) == IF has_pymupdf THEN "local" ELSE "raise"

\* AcademicPaperParser.process() returns the markdown of the PyMuPDF path, the
\* document of _fallback_process, or the "# Processing Error" document; it
\* catches every exception, so line 271 is not reached
LocalDocuments == {"markdown", "fallback", "processing_error"}

\* lines 225-274: local processing after the remote methods failed
LocalFallback(doc) ==
    /\ lp.pc = "local"
    /\ lp' = IF AfterLlamaParseError(cfg.has_pymupdf) = "local"
             THEN Returned("local", IF cfg.output_format = "json" THEN "single"
                                    ELSE ReturnShape(cfg, TRUE))
             ELSE [lp EXCEPT !.pc = "done", !.outcome = "raised"]
    /\ UNCHANGED <<cfg, direct, response, result, exceptRem>>

(***************************************************************************)
(* extract_text_from_pdf                                                   *)
(*                                                                         *)
(* The file content (pdf_str, the bytes decoded as latin-1) and the text   *)
(* returned are sequences of characters; "NUL" stands for one byte that is *)
(* neither printable nor white space.                                      *)
(***************************************************************************)
Chars(str) ==
    CASE str = "stream"    -> <<"s", "t", "r", "e", "a", "m">>
      [] str = "endstream" -> <<"e", "n", "d", "s", "t", "r", "e", "a", "m">>
      [] str = "Tj"        -> <<"T", "j">>
      [] str = "hi there"  -> <<"h", "i", " ", "t", "h", "e", "r", "e">>
      [] str = "ab"        -> <<"a", "b">>
      [] str = "12"        -> <<"1", "2">>
      [] str = "## "       -> <<"#", "#", " ">>

\* the pieces a file content is put together from
Chunks ==
    { Chars("stream") \o <<"\n">>,
      <<"\n">> \o Chars("endstream"),
      <<"(">>,
      <<")">>,
      <<" ">> \o Chars("Tj"),
      Chars("hi there"),
      Chars("ab"),
      Chars("12"),
      <<".">>,
      <<"\n">>,
      <<"NUL">> }

IsLowerChar(c) == c \in {"a", "b", "d", "e", "h", "i", "j", "m", "n", "r", "s", "t"}
IsUpperChar(c) == c \in {"T"}
IsAlphaChar(c) == IsLowerChar(c) \/ IsUpperChar(c)
IsDigitChar(c) == c \in {"0", "1", "2", "3", "4", "5", "6", "7", "8", "9"}
IsAlnumChar(c) == IsAlphaChar(c) \/ IsDigitChar(c)
IsSpaceChar(c) == c \in {" ", "\n"}
IsPrintableChar(c) == c \notin {"\n", "NUL"}

\* sum(1 for c in line if c.isalnum())
RECURSIVE AlnumCount(_, _)
AlnumCount(str, i) ==
    IF i > Len(str) THEN 0
    ELSE (IF IsAlnumChar(str[i]) THEN 1 ELSE 0) + AlnumCount(str, i + 1)

\* str.strip()
RECURSIVE LeadingSpace(_, _)
LeadingSpace(str, i) ==
    IF i <= Len(str) /\ IsSpaceChar(str[i]) THEN 1 + LeadingSpace(str, i + 1) ELSE 0
RECURSIVE TrailingSpace(_, _)
TrailingSpace(str, i) ==
    IF i >= 1 /\ IsSpaceChar(str[i]) THEN 1 + TrailingSpace(str, i - 1) ELSE 0
StripChars(str) ==
    LET a == LeadingSpace(str, 1)
    IN IF a = Len(str) THEN <<>>
       ELSE SubSeq(str, a + 1, Len(str) - TrailingSpace(str, Len(str)))

\* the literal lit stands in str at position i
LitAt(str, i, lit) ==
    /\ i >= 1
    /\ i + Len(lit) - 1 <= Len(str)
    /\ \A k \in 1..Len(lit) : str[i + k - 1] = lit[k]

\* the last position of the white space that starts at i; i - 1 when there is none
RECURSIVE WsRunEnd(_, _)
WsRunEnd(str, i) ==
    IF i <= Len(str) /\ IsSpaceChar(str[i]) THEN WsRunEnd(str, i + 1) ELSE i - 1

\* sep.join(parts)
RECURSIVE Join(_, _, _)
Join(parts, sep, i) ==
    IF i > Len(parts) THEN <<>>
    ELSE parts[i] \o (IF i < Len(parts) THEN sep ELSE <<>>) \o Join(parts, sep, i + 1)

\* str.split('\n')
RECURSIVE SplitLines(_, _, _)
SplitLines(str, i, current) ==
    IF i > Len(str) THEN <<current>>
    ELSE IF str[i] = "\n" THEN <<current>> \o SplitLines(str, i + 1, <<>>)
    ELSE SplitLines(str, i + 1, Append(current, str[i]))

\* r'stream\s+(.*?)\s+endstream' with DOTALL, tried at position i: the white
\* space after "stream" is taken as long as a match allows, the group as short
\* as possible.  g is the last position of a group when white space and then
\* "endstream" follow it.
GroupEndsAt(str, g) ==
    /\ g + 1 <= Len(str)
    /\ IsSpaceChar(str[g + 1])
    /\ LitAt(str, WsRunEnd(str, g + 1) + 1, Chars("endstream"))

StreamMatchAt(str, i) ==
    LET j == i + 6
        w == WsRunEnd(str, j)
        leads == {k \in j..w : \E g \in k..Len(str) : GroupEndsAt(str, g)}
    IN IF ~LitAt(str, i, Chars("stream")) \/ leads = {}
       THEN [found |-> FALSE]
       ELSE LET k == CHOOSE x \in leads : \A y \in leads : y <= x
                g == CHOOSE x \in k..Len(str) :
                         /\ GroupEndsAt(str, x)
                         /\ \A y \in k..Len(str) : GroupEndsAt(str, y) => x <= y
            IN [found |-> TRUE, group |-> SubSeq(str, k + 1, g),
                next |-> WsRunEnd(str, g + 1) + 10]

\* stream_pattern.findall(pdf_str), from position i on
RECURSIVE FindStreams(_, _)
FindStreams(str, i) ==
    IF i > Len(str) THEN <<>>
    ELSE LET m == StreamMatchAt(str, i)
         IN IF m.found THEN <<m.group>> \o FindStreams(str, m.next)
            ELSE FindStreams(str, i + 1)

\* lines 55-63: the lines of a stream that look like text
Cleaned(stream) ==
    [i \in 1..Len(stream) |->
        IF IsPrintableChar(stream[i]) \/ IsSpaceChar(stream[i]) THEN stream[i] ELSE " "]

LooksLikeText(line) ==
    /\ Len(StripChars(line)) >= 3
    /\ 10 * AlnumCount(line, 1) > 3 * (IF Len(line) > 1 THEN Len(line) ELSE 1)

RECURSIVE TextLines(_, _)
TextLines(lines, i) ==
    IF i > Len(lines) THEN <<>>
    ELSE (IF LooksLikeText(lines[i]) THEN <<StripChars(lines[i])>> ELSE <<>>)
         \o TextLines(lines, i + 1)

RECURSIVE StreamText(_, _)
StreamText(streams, i) ==
    IF i > Len(streams) THEN <<>>
    ELSE TextLines(SplitLines(Cleaned(streams[i]), 1, <<>>), 1) \o StreamText(streams, i + 1)

\* r'\((.*?)\)[\s\r\n]*Tj' with DOTALL, tried at position i: the group is
\* the shortest text after "(" that ")" , white space and "Tj" follow
TjGroupEndsAt(str, g) ==
    /\ g + 1 <= Len(str)
    /\ str[g + 1] = ")"
    /\ LitAt(str, WsRunEnd(str, g + 2) + 1, Chars("Tj"))

TjMatchAt(str, i) ==
    LET ends == {g \in i..Len(str) : TjGroupEndsAt(str, g)}
    IN IF str[i] # "(" \/ ends = {}
       THEN [found |-> FALSE]
       ELSE LET g == CHOOSE x \in ends : \A y \in ends : x <= y
            IN [found |-> TRUE, group |-> SubSeq(str, i + 1, g),
                next |-> WsRunEnd(str, g + 2) + 3]

\* r'\((.*?)\)' with DOTALL, tried at position i
ParenMatchAt(str, i) ==
    LET ends == {g \in i..Len(str) : g + 1 <= Len(str) /\ str[g + 1] = ")"}
    IN IF str[i] # "(" \/ ends = {}
       THEN [found |-> FALSE]
       ELSE LET g == CHOOSE x \in ends : \A y \in ends : x <= y
            IN [found |-> TRUE, group |-> SubSeq(str, i + 1, g), next |-> g + 2]

\* text_pattern.findall(pdf_str) for either pattern, from position i on
RECURSIVE FindTj(_, _)
FindTj(str, i) ==
    IF i > Len(str) THEN <<>>
    ELSE LET m == TjMatchAt(str, i)
         IN IF m.found THEN <<m.group>> \o FindTj(str, m.next) ELSE FindTj(str, i + 1)
RECURSIVE FindParen(_, _)
FindParen(str, i) ==
    IF i > Len(str) THEN <<>>
    ELSE LET m == ParenMatchAt(str, i)
         IN IF m.found THEN <<m.group>> \o FindParen(str, m.next) ELSE FindParen(str, i + 1)

\* line 84: r'^\d{1,2}/\d{1,2}/\d{2,4}$' or r'^\d{1,2}:\d{1,2}(:\d{1,2})?$';
\* $ also matches before a last line break
Digits(n) == [i \in 1..n |-> "d"]
DateShapes ==
    { Digits(a) \o <<"/">> \o Digits(b) \o <<"/">> \o Digits(c) :
          a \in 1..2, b \in 1..2, c \in 2..4 }
TimeShapes ==
    { Digits(a) \o <<":">> \o Digits(b) : a \in 1..2, b \in 1..2 }
    \cup { Digits(a) \o <<":">> \o Digits(b) \o <<":">> \o Digits(c) :
               a \in 1..2, b \in 1..2, c \in 1..2 }
ShapeOf(str) == [i \in 1..Len(str) |-> IF IsDigitChar(str[i]) THEN "d" ELSE str[i]]
LooksLikeDateOrTime(match) ==
    LET body == IF Len(match) > 0 /\ match[Len(match)] = "\n"
                THEN SubSeq(match, 1, Len(match) - 1) ELSE match
    IN ShapeOf(match) \in DateShapes \cup TimeShapes
       \/ ShapeOf(body) \in DateShapes \cup TimeShapes

EndsWithDot(match) == Len(match) > 0 /\ match[Len(match)] = "."

\* lines 76-86
RECURSIVE FilterTj(_, _)
FilterTj(matches, i) ==
    IF i > Len(matches) THEN <<>>
    ELSE LET match == matches[i]
             skip == \/ Len(match) < 2
                     \/ AlnumCount(match, 1) < 2
                     \/ LooksLikeDateOrTime(match)
         IN (IF skip THEN <<>> ELSE <<match>>) \o FilterTj(matches, i + 1)

\* lines 91-106: both branches of line 96 append the match; a match ending
\* with a full stop closes the paragraph
RECURSIVE Paragraphs(_, _, _)
Paragraphs(matches, i, current_para) ==
    IF i > Len(matches)
    THEN IF current_para # <<>> THEN << Join(current_para, <<" ">>, 1) >> ELSE <<>>
    ELSE LET para == Append(current_para, matches[i])
         IN IF EndsWithDot(matches[i])
            THEN << Join(para, <<" ">>, 1) >> \o Paragraphs(matches, i + 1, <<>>)
            ELSE Paragraphs(matches, i + 1, para)

\* lines 116-126
RECURSIVE FilterParen(_, _)
FilterParen(matches, i) ==
    IF i > Len(matches) THEN <<>>
    ELSE LET match == matches[i]
             skip == \/ Len(match) < 5
                     \/ \A k \in 1..Len(match) : match[k] # " "
                     \/ 2 * AlnumCount(match, 1) < Len(match)
         IN (IF skip THEN <<>> ELSE <<match>>) \o FilterParen(matches, i + 1)

\* str.istitle(): an upper case letter only after a character without case, a
\* lower case letter only after a letter, and one letter at least
RECURSIVE TitleCased(_, _, _, _)
TitleCased(str, i, previous_is_cased, cased) ==
    IF i > Len(str) THEN cased
    ELSE IF IsUpperChar(str[i])
    THEN ~previous_is_cased /\ TitleCased(str, i + 1, TRUE, TRUE)
    ELSE IF IsLowerChar(str[i])
    THEN previous_is_cased /\ TitleCased(str, i + 1, TRUE, TRUE)
    ELSE TitleCased(str, i + 1, FALSE, cased)

LooksLikeHeading(match) ==
    Len(match) < 50 /\ TitleCased(StripChars(match), 1, FALSE, FALSE) /\ ~EndsWithDot(match)

\* lines 129-143
RECURSIVE SectionsAndParagraphs(_, _, _)
SectionsAndParagraphs(matches, i, paragraphs) ==
    LET flushed == IF paragraphs # <<>> THEN << Join(paragraphs, <<"\n", "\n">>, 1) >> ELSE <<>>
    IN IF i > Len(matches) THEN flushed
       ELSE IF LooksLikeHeading(matches[i])
       THEN flushed \o << <<"\n">> \o Chars("## ") \o matches[i] \o <<"\n">> >>
            \o SectionsAndParagraphs(matches, i + 1, <<>>)
       ELSE SectionsAndParagraphs(matches, i + 1, Append(paragraphs, matches[i]))

\* lines 150-152: the runs of three letters or more
PrintableChars(str) ==
    [i \in 1..Len(str) |->
        IF (IsPrintableChar(str[i]) \/ IsSpaceChar(str[i])) /\ ~IsDigitChar(str[i])
        THEN str[i] ELSE " "]

RECURSIVE Words(_, _, _)
Words(str, i, run) ==
    LET word == IF Len(run) >= 3 THEN <<run>> ELSE <<>>
    IN IF i > Len(str) THEN word
       ELSE IF IsAlphaChar(str[i]) THEN Words(str, i + 1, Append(run, str[i]))
       ELSE word \o Words(str, i + 1, <<>>)

\* line 155: re.sub(r'\s+Tj', '', text)
RECURSIVE RemoveTj(_, _)
RemoveTj(text, i) ==
    IF i > Len(text) THEN <<>>
    ELSE IF IsSpaceChar(text[i])
    THEN LET w == WsRunEnd(text, i)
         IN IF LitAt(text, w + 1, Chars("Tj")) THEN RemoveTj(text, w + 3)
            ELSE SubSeq(text, i, w) \o RemoveTj(text, w + 1)
    ELSE <<text[i]>> \o RemoveTj(text, i + 1)

\* lines 44-157 for a file that was read: the text parsed out of pdf_str
StreamStage(pdf_str) == Join(StreamText(FindStreams(pdf_str, 1), 1), <<"\n">>, 1)

ParenStage(pdf_str) ==
    LET tj == FilterTj(FindTj(pdf_str, 1), 1)
    IN IF tj # <<>>
       THEN Join(Paragraphs(tj, 1, <<>>), <<"\n", "\n">>, 1)
       ELSE Join(SectionsAndParagraphs(FilterParen(FindParen(pdf_str, 1), 1), 1, <<>>),
                 <<"\n">>, 1)

WordStage(pdf_str) == Join(Words(PrintableChars(pdf_str), 1, <<>>), <<" ">>, 1)

ParseDirectly(pdf_str) ==
    LET streams == StreamStage(pdf_str)
        parsed == IF StripChars(streams) = <<>> THEN ParenStage(pdf_str) ELSE streams
        text == IF StripChars(parsed) = <<>> THEN WordStage(pdf_str) ELSE parsed
    IN RemoveTj(text, 1)

\* what extract_text_from_pdf meets:
\*   file    - pdf_path is "missing", "unreadable" or "readable"
\*   content - the pieces of a readable file, pdf_str being their concatenation
\*   tool    - pdftotext: "no_tempfile" (the temporary file cannot be made),
\*             "absent" (FileNotFoundError), "fails" (CalledProcessError),
\*             "undecodable" (its output cannot be read as text) or "ok"
\*   tool_text - what pdftotext wrote when it ran
Files == {"missing", "unreadable", "readable"}
Tools == {"no_tempfile", "absent", "fails", "undecodable", "ok"}
ToolTexts == { <<>>, Chars("hi there") }
NoPdf == [file |-> "missing", content |-> <<>>, tool |-> "absent", tool_text |-> <<>>]

\* pdftotext writes output only for a file it can read
PdfEnvironments ==
    { e \in [file : Files, content : {<<>>}, tool : Tools, tool_text : ToolTexts] :
          /\ e.file # "readable" => e.tool \notin {"undecodable", "ok"}
          /\ e.tool # "ok" => e.tool_text = <<>> }

TxtIdle == [pc |-> "idle", raised |-> FALSE, text |-> <<>>]

\* lines 26-37 with the outer handler of line 36 left out
PdftotextOutcomeInnerOnly(tool) ==
    CASE tool = "ok" -> "return"
      [] tool \in {"absent", "fails"} -> "next"
      [] OTHER -> "raise"

\* lines 26-37: SubprocessError and FileNotFoundError are caught at line 34,
\* everything else at line 36
PdftotextOutcome(tool) ==
    CASE tool = "ok" -> "return"
      [] tool \in {"absent", "fails"} -> "next"
      [] OTHER -> "next"

\* str(e) of the error open() raises
OpenError(file) ==
    IF file = "missing" THEN "[Errno 2] No such file or directory"
    ELSE "[Errno 13] Permission denied"

\* line 161
FailedToExtract(message) ==
    <<"F", "a", "i", "l", "e", "d", " ", "t", "o", " ", "e", "x", "t", "r", "a", "c", "t",
      " ", "t", "e", "x", "t", ":", " ", message>>

\* lines 39-161
DirectText(env) ==
    IF env.file # "readable" THEN FailedToExtract(OpenError(env.file))
    ELSE ParseDirectly(Join(env.content, <<>>, 1))

\* extract_text_from_pdf(pdf_path): the string returned, or "raised"
ExtractTextFromPdf(env, outcome) ==
    CASE outcome = "return" -> [raised |-> FALSE, text |-> env.tool_text]
      [] outcome = "next"   -> [raised |-> FALSE, text |-> DirectText(env)]
      [] outcome = "raise"  -> [raised |-> TRUE, text |-> <<>>]

\* the file content, piece by piece
AppendChunk(chunk) ==
    /\ txt.pc = "input"
    /\ pdf.file = "readable"
    /\ Len(pdf.content) < MaxChunks
    /\ pdf' = [pdf EXCEPT !.content = Append(@, chunk)]
    /\ UNCHANGED <<txt, ap, exceptParse>>

\* a call of extract_text_from_pdf
ExtractText ==
    /\ txt.pc = "input"
    /\ LET r == ExtractTextFromPdf(pdf, PdftotextOutcome(pdf.tool))
       IN txt' = [pc |-> "done", raised |-> r.raised, text |-> r.text]
    /\ UNCHANGED <<pdf, ap, exceptParse>>

(***************************************************************************)
(* AcademicPaperParser                                                     *)
(***************************************************************************)
\* pc: where the parser stands; pymupdf: self.pymupdf is a module;
\* fallback_extractor: the attribute was set by __init__; doc: the PDF handle
\* ("none" before it is opened, then "open" or "closed"); failed: the step of
\* process that raised; out: the document process returned
NoDocument == [kind |-> "none", error |-> "none"]
ApIdle == [pc |-> "idle", pymupdf |-> FALSE, fallback_extractor |-> FALSE,
           doc |-> "none", failed |-> "none", out |-> NoDocument]

\* __init__, lines 47-71: fitz or pymupdf is imported, or else
\* extract_text_from_pdf is kept as fallback_extractor
Construct(importable) ==
    /\ ap.pc = "new"
    /\ ap' = [ap EXCEPT !.pc = "start", !.pymupdf = importable,
                        !.fallback_extractor = ~importable]
    /\ UNCHANGED <<pdf, txt, exceptParse>>

\* the steps of process inside the try block of line 86, in their order
ProcessSteps == <<"open", "pages", "metadata", "structure", "sections", "references",
                  "markdown", "close">>
StepAfter(step) ==
    LET i == CHOOSE k \in 1..Len(ProcessSteps) : ProcessSteps[k] = step
    IN IF i = Len(ProcessSteps) THEN "return" ELSE ProcessSteps[i + 1]

\* line 82: without PyMuPDF process goes to _fallback_process at once
StartProcess ==
    /\ ap.pc = "start"
    /\ ap' = [ap EXCEPT !.pc = IF ap.pymupdf THEN "open" ELSE "fallback"]
    /\ UNCHANGED <<pdf, txt, exceptParse>>

\* lines 86-116, one step: it succeeds, or it raises and the handler of line
\* 113 turns to _fallback_process.  The handle is open once pymupdf.open has
\* returned, and closed once doc.close() has.
ProcessStep(raises) ==
    /\ ap.pc \in {ProcessSteps[k] : k \in 1..Len(ProcessSteps)}
    /\ ap' = IF raises
             THEN [ap EXCEPT !.pc = "fallback", !.failed = ap.pc]
             ELSE [ap EXCEPT !.pc = StepAfter(ap.pc),
                             !.doc = CASE ap.pc = "open"  -> "open"
                                       [] ap.pc = "close" -> "closed"
                                       [] OTHER -> @]
    /\ UNCHANGED <<pdf, txt, exceptParse>>

\* lines 104-112: the markdown is returned
ReturnMarkdown ==
    /\ ap.pc = "return"
    /\ ap' = [ap EXCEPT !.pc = "done", !.out = [kind |-> "markdown", error |-> "none"]]
    /\ UNCHANGED <<pdf, txt, exceptParse>>

\* _fallback_process, lines 131-143: what it returns for the extractor's text
\*   "unparsed" - "# ACADEMIC PAPER TITLE\n# Introduction", for no text or the
\*                failure message
\*   "fallback" - the markdown made out of the text (line 300)
\*   "note"     - "# ACADEMIC PAPER TITLE\n\n> Note: ...", after an exception
\*                (line 303)
StartsWithFailed(text) == LitAt(text, 1, SubSeq(FailedToExtract(""), 1, 22))

FallbackDocument(text, serialized) ==
    IF text = <<>> \/ StartsWithFailed(text) THEN "unparsed"
    ELSE IF serialized THEN "fallback" ELSE "note"

\* process returning self._fallback_process() (lines 83 and 116); the handler
\* of line 118 with its "# Processing Error" document would need
\* _fallback_process to raise, which its own handler of line 301 rules out.
\* Without the fallback_extractor attribute, line 135 raises AttributeError.
FallbackProcess(serialized) ==
    /\ ap.pc = "fallback"
    /\ IF ap.fallback_extractor
       THEN LET r == ExtractTextFromPdf(pdf, PdftotextOutcome(pdf.tool))
            IN /\ txt' = [pc |-> "done", raised |-> r.raised, text |-> r.text]
               /\ ap' = [ap EXCEPT !.pc = "done",
                                   !.out = [kind |-> FallbackDocument(r.text, serialized),
                                            error |-> "none"]]
       ELSE /\ ap' = [ap EXCEPT !.pc = "done", !.out = [kind |-> "note", error |-> "none"]]
            /\ UNCHANGED txt
    /\ UNCHANGED <<pdf, exceptParse>>

(***************************************************************************)
(* AcademicPaperParser: section detection and references                   *)
(*                                                                         *)
(* A text line of a block is its first span: the text (tokens, as for the  *)
(* structured extractor), the font size and the bold flag.                 *)
(***************************************************************************)
Span(text, size, bold) == [text |-> text, size |-> size, bold |-> bold]

LayoutLines ==
    { Span(<<"References">>, 10, FALSE),                        \* the heading, in body font
      Span(<<"[", "1", "]", " ", "Smith.">>, 10, FALSE),        \* [1] Smith.
      Span(<<"1", ".", " ", "Smith et al.">>, 10, FALSE),       \* 1. Smith et al.
      Span(<<"2", ".", " ", "de Vries.">>, 10, FALSE),          \* 2. de Vries.
      Span(<<"continued text.">>, 10, FALSE),                   \* continued text.
      Span(<<" ">>, 10, FALSE),                                 \* an empty line
      Span(<<"Appendix">>, 14, FALSE) }                         \* a heading in a larger font

\* [A-Z][a-z]+ at the start of the token
StartsCapitalized(tok) == tok \in {"References", "Smith.", "Smith et al.", "Appendix"}
\* str.isupper() of the line
IsUpperText(text) == FALSE
\* text.strip().lower() in ["abstract", "introduction", ..., "references", "acknowledgments"]
IsStandardHeading(text) == Len(text) = 1 /\ Lower(text[1]) = "references"

\* re.match(r"^\d+\.?\s+[A-Z][a-z]+", text)
IsNumberedHeading(text) ==
    LET digits == CountDigits(text, 1)
        dot    == IF digits + 1 <= Len(text) /\ text[digits + 1] = "." THEN 1 ELSE 0
        spaces == CountLeading(text, " ", digits + dot + 1)
        word   == digits + dot + spaces + 1
    IN /\ digits >= 1
       /\ spaces >= 1
       /\ word <= Len(text)
       /\ StartsCapitalized(text[word])

\* the heading test of _detect_sections (lines 396-401); every line of the
\* model is shorter than 100 characters
LooksLikeSectionHeading(span) ==
    LET text == Strip(span.text)
    IN \/ span.size > 12
       \/ span.bold /\ IsUpperText(text)
       \/ IsNumberedHeading(text)
       \/ IsStandardHeading(text)

\* _detect_sections (lines 374-411), from line i on: secs is self.sections,
\* its last entry the current section
RECURSIVE DetectSections(_, _, _)
DetectSections(lines, i, secs) ==
    IF i > Len(lines) THEN secs
    ELSE LET span == lines[i]
             text == Strip(span.text)
         IN IF text = <<>> THEN DetectSections(lines, i + 1, secs)
            ELSE IF LooksLikeSectionHeading(span)
            THEN DetectSections(lines, i + 1,
                    Append(secs, [heading |-> text, content |-> <<>>,
                                  level |-> IF span.size > 14 \/ IsUpperText(text) THEN 1 ELSE 2]))
            ELSE DetectSections(lines, i + 1,
                    [secs EXCEPT ![Len(secs)].content = Append(@, text)])

\* re.match(r"references|bibliography", section["heading"].lower())
IsReferencesSection(section) ==
    section.heading # <<>> /\ Lower(section.heading[1]) \in {"references", "bibliography"}

\* lines 414-418: the first section with such a heading, 0 when there is none
ReferencesSection(secs) ==
    LET hits == {k \in 1..Len(secs) : IsReferencesSection(secs[k])}
    IN IF hits = {} THEN 0 ELSE CHOOSE k \in hits : \A j \in hits : k <= j

\* reference_pattern (line 427), r"(?:\[\d+\]|\d+\.)\s+(.+)": the length of the
\* marker and the whitespace after it, 0 when the text does not match
ReferenceMarker(text) ==
    LET plain   == CountDigits(text, 1)
        inner   == CountDigits(text, 2)
        bracket == IF /\ Len(text) >= 1 /\ text[1] = "[" /\ inner >= 1
                      /\ inner + 2 <= Len(text) /\ text[inner + 2] = "]"
                   THEN inner + 2 ELSE 0
        dotted  == IF plain >= 1 /\ plain + 1 <= Len(text) /\ text[plain + 1] = "."
                   THEN plain + 1 ELSE 0
        marker  == IF bracket > 0 THEN bracket ELSE dotted
        spaces  == CountLeading(text, " ", marker + 1)
    IN IF marker > 0 /\ spaces >= 1 /\ marker + spaces < Len(text)
       THEN marker + spaces ELSE 0

\* the loop of _process_references (lines 430-435), from content line i on
RECURSIVE ProcessReferences(_, _, _)
ProcessReferences(content, i, references) ==
    IF i > Len(content) THEN references
    ELSE LET text == content[i]
             skip == ReferenceMarker(text)
         IN IF skip > 0
            THEN ProcessReferences(content, i + 1,
                    Append(references, Strip(SubSeq(text, skip + 1, Len(text)))))
            ELSE IF references # <<>> /\ text # <<>>
            THEN ProcessReferences(content, i + 1,
                    [references EXCEPT ![Len(references)] = @ \o <<" ">> \o text])
            ELSE ProcessReferences(content, i + 1, references)

NotParsed == [pc |-> "blocks", sections |-> <<>>, references |-> <<>>]

\* one more text line in the blocks of the document
AppendLayoutLine(span) ==
    /\ detected.pc = "blocks"
    /\ Len(layout) < MaxLayoutLines
    /\ layout' = Append(layout, span)
    /\ UNCHANGED <<detected, exceptLayout>>

\* self._detect_sections()
RunDetectSections ==
    /\ detected.pc = "blocks"
    /\ detected' = [detected EXCEPT
                     !.pc = "sections",
                     !.sections = DetectSections(layout, 1,
                        <<[heading |-> <<"Introduction">>, content |-> <<>>, level |-> 1]>>)]
    /\ UNCHANGED <<layout, exceptLayout>>

\* self._process_references()
RunProcessReferences ==
    /\ detected.pc = "sections"
    /\ detected' = [detected EXCEPT
                     !.pc = "references",
                     !.references =
                        IF ReferencesSection(detected.sections) = 0 THEN <<>>
                        ELSE ProcessReferences(
                                detected.sections[ReferencesSection(detected.sections)].content,
                                1, <<>>)]
    /\ UNCHANGED <<layout, exceptLayout>>

(***************************************************************************)
(* DocumentRepository                                                      *)
(***************************************************************************)
DocumentIds == 1..MaxDocuments
NoDocumentRow == [exists |-> FALSE]
NoDocuments == [id \in DocumentIds |-> NoDocumentRow]
NoDocCall == [op |-> "init", document_id |-> None, returned |-> "None"]

\* Document as a new row has it (models/document.py): processing_status
\* defaults to PENDING, view_count to 0, the nullable columns to NULL
NewDocument == [exists |-> TRUE, processing_status |-> "PENDING", parsing_error |-> "NULL",
                view_count |-> 0, last_viewed_at |-> "NULL"]

\* document_repository.create(db, obj_in=...) with the next free id
CreateDocument ==
    /\ \E id \in DocumentIds :
          /\ ~documents[id].exists
          /\ \A other \in DocumentIds : other < id => documents[other].exists
          /\ documents' = [documents EXCEPT ![id] = NewDocument]
          /\ docCall' = [op |-> "create", document_id |-> id, returned |-> "Document"]
    /\ UNCHANGED <<pd, exceptDoc>>

\* increment_view_count(db, document_id=...), a missing id being one that no
\* row has
IncrementViewCount(document_id) ==
    /\ documents[document_id].exists => documents[document_id].view_count < MaxViews
    /\ IF documents[document_id].exists
       THEN /\ documents' = [documents EXCEPT ![document_id].view_count = @ + 1]
            /\ docCall' = [op |-> "increment_view_count", document_id |-> document_id,
                           returned |-> "Document"]
       ELSE /\ UNCHANGED documents
            /\ docCall' = [op |-> "increment_view_count", document_id |-> document_id,
                           returned |-> "None"]
    /\ UNCHANGED <<pd, exceptDoc>>

\* existing: whether the document was there when process_document was called
\* stored: how store_processing_results ended; committed: the writes of that
\* run which are durable
PdIdle == [pc |-> "idle", document_id |-> None, existing |-> FALSE, error |-> "none",
           returned |-> "none", stored |-> "none", committed |-> {}]

\* update_status(db, document_id=..., status=...) on the table: the row, when
\* there is one, gets the status; nothing else of it is written
UpdateStatus(table, document_id, status) ==
    IF table[document_id].exists
    THEN [table EXCEPT ![document_id].processing_status = status]
    ELSE table

(***************************************************************************)
(* DocumentProcessingService.process_document                              *)
(***************************************************************************)
\* str(e) of what the inner try can raise
ProcessingErrors == {"parse_pdf error", "unpack error", "store error"}
\* what parse_pdf(pdf_path, return_structured=True) hands back: the pair, a
\* single document (the direct client's result), or an exception
ParseOutcomes == {"pair", "single", "raised"}
\* the storing steps of store_processing_results (lines 98-111) and the
\* commit of transaction() that follows them
StoreSteps == <<"update", "sections", "references", "figures", "commit">>

\* store_processing_results under run_in_transaction:
\*   fails_at     - the step that raises, "none" when none does
\*   base_commits - whether create() and update() of the base repository
\*                  commit on their own
\*   references, figures - whether structured_data holds any (the batch
\*                  creation is called only then)
StoreOutcomes ==
    [fails_at : {"none", "update", "sections", "references", "figures", "commit"},
     base_commits : BOOLEAN, references : BOOLEAN, figures : BOOLEAN]

\* what a step writes into the session
StepWrites(outcome, step) ==
    CASE step = "update" -> {"markdown_content", "COMPLETED"}
      [] step = "sections" -> {"sections"}
      [] step = "references" -> IF outcome.references THEN {"references"} ELSE {}
      [] step = "figures" -> IF outcome.figures THEN {"figures"} ELSE {}
      [] OTHER -> {}

\* whether the step ends with db.commit(): create_multiple of the reference
\* and figure repositories does (lines 111 and 93), transaction() does
StepCommits(outcome, step) ==
    CASE step \in {"update", "sections"} -> outcome.base_commits
      [] step = "references" -> outcome.references
      [] step = "figures" -> outcome.figures
      [] OTHER -> TRUE

\* the steps from step k on; the step that raises leaves the pending writes to
\* the rollback of transaction()
RECURSIVE CommittedWrites(_, _, _, _)
CommittedWrites(outcome, k, pending, committed) ==
    IF k > Len(StoreSteps) \/ outcome.fails_at = StoreSteps[k] THEN committed
    ELSE LET written == pending \cup StepWrites(outcome, StoreSteps[k])
         IN IF StepCommits(outcome, StoreSteps[k])
            THEN CommittedWrites(outcome, k + 1, {}, committed \cup written)
            ELSE CommittedWrites(outcome, k + 1, written, committed)

\* update_status(..., PROCESSING): db_ok = FALSE is the session raising
StartProcessDocument(document_id, db_ok) ==
    /\ pd.pc \in {"idle", "done"}
    /\ IF ~db_ok
       THEN /\ pd' = [pc |-> "outer_handler", document_id |-> document_id,
                      existing |-> documents[document_id].exists, error |-> "db error", returned |-> "none",
                      stored |-> "none", committed |-> {}]
            /\ UNCHANGED documents
       ELSE IF ~documents[document_id].exists
       THEN /\ pd' = [pc |-> "done", document_id |-> document_id,
                      existing |-> documents[document_id].exists, error |-> "none", returned |-> "False",
                      stored |-> "none", committed |-> {}]
            /\ UNCHANGED documents
       ELSE /\ pd' = [pc |-> "parse", document_id |-> document_id,
                      existing |-> documents[document_id].exists, error |-> "none", returned |-> "none",
                      stored |-> "none", committed |-> {}]
            /\ documents' = UpdateStatus(documents, document_id, "PROCESSING")
    /\ UNCHANGED <<docCall, exceptDoc>>

\* markdown_content, structured_data = parse_pdf(...): a single document does
\* not unpack into the two names
ParsePdf(outcome) ==
    /\ pd.pc = "parse"
    /\ pd' = CASE outcome = "pair" -> [pd EXCEPT !.pc = "store"]
               [] outcome = "single" -> [pd EXCEPT !.pc = "inner_handler", !.error = "unpack error"]
               [] OTHER -> [pd EXCEPT !.pc = "inner_handler", !.error = "parse_pdf error"]
    /\ UNCHANGED <<documents, docCall, exceptDoc>>

\* result = run_in_transaction(store_processing_results)
StoreProcessingResults(outcome) ==
    LET committed == CommittedWrites(outcome, 1, {}, {})
    IN
    /\ pd.pc = "store"
    /\ documents' = IF "COMPLETED" \in committed
                    THEN UpdateStatus(documents, pd.document_id, "COMPLETED")
                    ELSE documents
    /\ pd' = IF outcome.fails_at = "none"
             THEN [pd EXCEPT !.pc = "done", !.returned = "True",
                             !.stored = "stored", !.committed = committed]
             ELSE [pd EXCEPT !.pc = "inner_handler", !.error = "store error",
                             !.stored = "raised", !.committed = committed]
    /\ UNCHANGED <<docCall, exceptDoc>>

\* inner except: update(..., {processing_status: FAILED, parsing_error: str(e)})
\* and return False; the update raising leaves the inner try for the outer one
InnerHandler(db_ok) ==
    /\ pd.pc = "inner_handler"
    /\ IF db_ok
       THEN /\ documents' = [documents EXCEPT ![pd.document_id].processing_status = "FAILED",
                                              ![pd.document_id].parsing_error = pd.error]
            /\ pd' = [pd EXCEPT !.pc = "done", !.returned = "False"]
       ELSE /\ UNCHANGED documents
            /\ pd' = [pd EXCEPT !.pc = "outer_handler", !.error = "db error"]
    /\ UNCHANGED <<docCall, exceptDoc>>

\* outer except: try update_status(..., FAILED), a bare except around it, and
\* return False
OuterHandler(db_ok) ==
    /\ pd.pc = "outer_handler"
    /\ documents' = IF db_ok THEN UpdateStatus(documents, pd.document_id, "FAILED")
                    ELSE documents
    /\ pd' = [pd EXCEPT !.pc = "done", !.returned = "False"]
    /\ UNCHANGED <<docCall, exceptDoc>>

(***************************************************************************)
(* Specifications                                                          *)
(***************************************************************************)
vars == <<sections, lastCall, ret, flat, stored, asmPc, markdown, structured_data, extPc,
          cfg, direct, response, result, lp, pdf, txt, ap,
          documents, docCall, pd, layout, detected>>

\* the section repository on an empty table
InitRepo ==
    /\ sections = EmptyTable
    /\ lastCall = NoCall
    /\ ret = "init"
    /\ flat = <<>>
    /\ stored = NotRun
    /\ asmPc = "idle"
    /\ markdown = <<>>
    /\ structured_data = NotExtracted
    /\ extPc = "idle"
    /\ cfg = NoConfig
    /\ direct = DirectIdle
    /\ response = NoResponse
    /\ result = NoResult
    /\ lp = LpIdle
    /\ pdf = NoPdf
    /\ txt = TxtIdle
    /\ ap = ApIdle
    /\ documents = NoDocuments
    /\ docCall = NoDocCall
    /\ pd = PdIdle
    /\ layout = <<>>
    /\ detected = NotParsed

SpecRepo == InitRepo /\ [][RepoNext]_vars

\* _process_sections on every flat section list
InitAssemble ==
    /\ sections = EmptyTable
    /\ lastCall = NoCall
    /\ ret = "init"
    /\ flat = <<>>
    /\ stored = NotRun
    /\ asmPc = "input"
    /\ markdown = <<>>
    /\ structured_data = NotExtracted
    /\ extPc = "idle"
    /\ cfg = NoConfig
    /\ direct = DirectIdle
    /\ response = NoResponse
    /\ result = NoResult
    /\ lp = LpIdle
    /\ pdf = NoPdf
    /\ txt = TxtIdle
    /\ ap = ApIdle
    /\ documents = NoDocuments
    /\ docCall = NoDocCall
    /\ pd = PdIdle
    /\ layout = <<>>
    /\ detected = NotParsed

AsmNext ==
    \/ \E title \in Titles, level \in Levels : AppendSection(title, level)
    \/ RunProcessSections

SpecAssemble == InitAssemble /\ [][AsmNext]_vars

\* the structured extractor on every markdown input
InitExtract ==
    /\ sections = EmptyTable
    /\ lastCall = NoCall
    /\ ret = "init"
    /\ flat = <<>>
    /\ stored = NotRun
    /\ asmPc = "idle"
    /\ markdown = <<>>
    /\ structured_data = NotExtracted
    /\ extPc = "input"
    /\ cfg = NoConfig
    /\ direct = DirectIdle
    /\ response = NoResponse
    /\ result = NoResult
    /\ lp = LpIdle
    /\ pdf = NoPdf
    /\ txt = TxtIdle
    /\ ap = ApIdle
    /\ documents = NoDocuments
    /\ docCall = NoDocCall
    /\ pd = PdIdle
    /\ layout = <<>>
    /\ detected = NotParsed

ExtNext ==
    \/ \E line \in MarkdownLines : AppendLine(line)
    \/ Extract

SpecExtract == InitExtract /\ [][ExtNext]_vars

InitTables ==
    /\ sections = EmptyTable
    /\ lastCall = NoCall
    /\ ret = "init"
    /\ flat = <<>>
    /\ stored = NotRun
    /\ asmPc = "idle"
    /\ markdown = <<>>
    /\ structured_data = NotExtracted
    /\ extPc = "input"
    /\ cfg = NoConfig
    /\ direct = DirectIdle
    /\ response = NoResponse
    /\ result = NoResult
    /\ lp = LpIdle
    /\ pdf = NoPdf
    /\ txt = TxtIdle
    /\ ap = ApIdle
    /\ documents = NoDocuments
    /\ docCall = NoDocCall
    /\ pd = PdIdle
    /\ layout = <<>>
    /\ detected = NotParsed

TablesNext ==
    \/ \E line \in TableLines : AppendTableLine(line)
    \/ Extract

SpecTables == InitTables /\ [][TablesNext]_vars

InitAbstract ==
    /\ sections = EmptyTable
    /\ lastCall = NoCall
    /\ ret = "init"
    /\ flat = <<>>
    /\ stored = NotRun
    /\ asmPc = "idle"
    /\ markdown = <<>>
    /\ structured_data = NotExtracted
    /\ extPc = "input"
    /\ cfg = NoConfig
    /\ direct = DirectIdle
    /\ response = NoResponse
    /\ result = NoResult
    /\ lp = LpIdle
    /\ pdf = NoPdf
    /\ txt = TxtIdle
    /\ ap = ApIdle
    /\ documents = NoDocuments
    /\ docCall = NoDocCall
    /\ pd = PdIdle
    /\ layout = <<>>
    /\ detected = NotParsed

AbstractNext ==
    \/ \E line \in AbstractLines : AppendAbstractLine(line)
    \/ Extract

SpecAbstract == InitAbstract /\ [][AbstractNext]_vars

\* a LlamaParseClient of any configuration about to run parse_pdf
InitRemote ==
    /\ sections = EmptyTable
    /\ lastCall = NoCall
    /\ ret = "init"
    /\ flat = <<>>
    /\ stored = NotRun
    /\ asmPc = "idle"
    /\ markdown = <<>>
    /\ structured_data = NotExtracted
    /\ extPc = "idle"
    /\ cfg \in Configs
    /\ direct = DirectIdle
    /\ response = NoResponse
    /\ result = NoResult
    /\ lp = [LpIdle EXCEPT !.pc = "start"]
    /\ pdf = NoPdf
    /\ txt = TxtIdle
    /\ ap = ApIdle
    /\ documents = NoDocuments
    /\ docCall = NoDocCall
    /\ pd = PdIdle
    /\ layout = <<>>
    /\ detected = NotParsed

RemoteNext ==
    \/ StartParse
    \/ \E answer \in UploadAnswers : Upload(answer)
    \/ \E answer \in Statuses \cup {"http_error"} : Poll(answer)
    \/ \E r \in Responses(1) : ReceiveResult(r)
    \/ DirectFinished
    \/ \E answer \in PackageAnswers : PackageAttempt(answer)
    \/ \E doc \in LocalDocuments : LocalFallback(doc)

SpecRemote == InitRemote /\ [][RemoteNext]_vars

\* a DirectLlamaClient whose job succeeded at the first poll, the answer of
\* the result endpoint on its way
InitResult ==
    /\ sections = EmptyTable
    /\ lastCall = NoCall
    /\ ret = "init"
    /\ flat = <<>>
    /\ stored = NotRun
    /\ asmPc = "idle"
    /\ markdown = <<>>
    /\ structured_data = NotExtracted
    /\ extPc = "idle"
    /\ cfg \in {c \in Configs : c.api_key /\ c.has_pymupdf /\ c.has_extractor
                                /\ ~c.return_structured}
    /\ direct = [DirectIdle EXCEPT !.pc = "fetch", !.polls = 1, !.last_status = "SUCCESS"]
    /\ response \in Responses(MaxContentLines)
    /\ result = NoResult
    /\ lp = [LpIdle EXCEPT !.pc = "direct"]
    /\ pdf = NoPdf
    /\ txt = TxtIdle
    /\ ap = ApIdle
    /\ documents = NoDocuments
    /\ docCall = NoDocCall
    /\ pd = PdIdle
    /\ layout = <<>>
    /\ detected = NotParsed

ResultNext ==
    \/ ReceiveResult(response)
    \/ DirectFinished

SpecResult == InitResult /\ [][ResultNext]_vars

\* extract_text_from_pdf on any file, with pdftotext in any condition
InitText ==
    /\ sections = EmptyTable
    /\ lastCall = NoCall
    /\ ret = "init"
    /\ flat = <<>>
    /\ stored = NotRun
    /\ asmPc = "idle"
    /\ markdown = <<>>
    /\ structured_data = NotExtracted
    /\ extPc = "idle"
    /\ cfg = NoConfig
    /\ direct = DirectIdle
    /\ response = NoResponse
    /\ result = NoResult
    /\ lp = LpIdle
    /\ pdf \in PdfEnvironments
    /\ txt = [TxtIdle EXCEPT !.pc = "input"]
    /\ ap = ApIdle
    /\ documents = NoDocuments
    /\ docCall = NoDocCall
    /\ pd = PdIdle
    /\ layout = <<>>
    /\ detected = NotParsed

TextNext ==
    \/ \E chunk \in Chunks : AppendChunk(chunk)
    \/ ExtractText

SpecText == InitText /\ [][TextNext]_vars

\* an AcademicPaperParser about to be constructed for any file
InitParser ==
    /\ sections = EmptyTable
    /\ lastCall = NoCall
    /\ ret = "init"
    /\ flat = <<>>
    /\ stored = NotRun
    /\ asmPc = "idle"
    /\ markdown = <<>>
    /\ structured_data = NotExtracted
    /\ extPc = "idle"
    /\ cfg = NoConfig
    /\ direct = DirectIdle
    /\ response = NoResponse
    /\ result = NoResult
    /\ lp = LpIdle
    /\ pdf \in PdfEnvironments
               \cup { [e EXCEPT !.content = <<chunk>>] :
                         e \in {x \in PdfEnvironments : x.file = "readable"},
                         chunk \in Chunks }
    /\ txt = TxtIdle
    /\ ap = [ApIdle EXCEPT !.pc = "new"]
    /\ documents = NoDocuments
    /\ docCall = NoDocCall
    /\ pd = PdIdle
    /\ layout = <<>>
    /\ detected = NotParsed

ParserNext ==
    \/ \E importable \in BOOLEAN : Construct(importable)
    \/ StartProcess
    \/ \E raises \in BOOLEAN : ProcessStep(raises)
    \/ ReturnMarkdown
    \/ \E serialized \in BOOLEAN : FallbackProcess(serialized)

SpecParser == InitParser /\ [][ParserNext]_vars

InitDocs ==
    /\ sections = EmptyTable
    /\ lastCall = NoCall
    /\ ret = "init"
    /\ flat = <<>>
    /\ stored = NotRun
    /\ asmPc = "idle"
    /\ markdown = <<>>
    /\ structured_data = NotExtracted
    /\ extPc = "idle"
    /\ cfg = NoConfig
    /\ direct = DirectIdle
    /\ response = NoResponse
    /\ result = NoResult
    /\ lp = LpIdle
    /\ pdf = NoPdf
    /\ txt = TxtIdle
    /\ ap = ApIdle
    /\ documents = NoDocuments
    /\ docCall = NoDocCall
    /\ pd = PdIdle
    /\ layout = <<>>
    /\ detected = NotParsed

DocNext ==
    \/ CreateDocument
    \/ \E document_id \in DocumentIds : IncrementViewCount(document_id)
    \/ \E document_id \in DocumentIds, db_ok \in BOOLEAN : StartProcessDocument(document_id, db_ok)
    \/ \E outcome \in ParseOutcomes : ParsePdf(outcome)
    \/ \E outcome \in StoreOutcomes : StoreProcessingResults(outcome)
    \/ \E db_ok \in BOOLEAN : InnerHandler(db_ok)
    \/ \E db_ok \in BOOLEAN : OuterHandler(db_ok)

SpecDocs == InitDocs /\ [][DocNext]_vars

InitLayout ==
    /\ sections = EmptyTable
    /\ lastCall = NoCall
    /\ ret = "init"
    /\ flat = <<>>
    /\ stored = NotRun
    /\ asmPc = "idle"
    /\ markdown = <<>>
    /\ structured_data = NotExtracted
    /\ extPc = "idle"
    /\ cfg = NoConfig
    /\ direct = DirectIdle
    /\ response = NoResponse
    /\ result = NoResult
    /\ lp = LpIdle
    /\ pdf = NoPdf
    /\ txt = TxtIdle
    /\ ap = ApIdle
    /\ documents = NoDocuments
    /\ docCall = NoDocCall
    /\ pd = PdIdle
    /\ layout = <<>>
    /\ detected = NotParsed

LayoutNext ==
    \/ \E span \in LayoutLines : AppendLayoutLine(span)
    \/ RunDetectSections
    \/ RunProcessReferences

SpecLayout == InitLayout /\ [][LayoutNext]_vars

(***************************************************************************)
(* Section tree: ancestors and cycles                                      *)
(***************************************************************************)
\* the parent of each member of A, where there is one
ParentsOf(secs, A) == {secs[id].parent_id : id \in {x \in A : Exists(secs, x)}} \ {None}

RECURSIVE AncestorClosure(_, _)
AncestorClosure(secs, A) ==
    LET grown == A \cup ParentsOf(secs, A)
    IN IF grown = A THEN A ELSE AncestorClosure(secs, grown)

\* the parent, grandparent, ... of a section
ProperAncestors(secs, id) == AncestorClosure(secs, ParentsOf(secs, {id}))

\* p lies below s: child, grandchild, ...
IsDescendant(secs, p, s) == s \in ProperAncestors(secs, p)

Acyclic(secs) == \A id \in SectionIds : Exists(secs, id) => ~IsDescendant(secs, id, id)

\* C1: a move_section call whose target parent is a descendant (child,
\* grandchild, ...) of the moved section returns None and leaves the parent
\* and the order of every section as they were.
C1_DescendantMoveRejected ==
    [][(/\ lastCall'.op = "move_section"
        /\ Exists(sections, lastCall'.section_id)
        /\ Exists(sections, lastCall'.new_parent_id)
        /\ IsDescendant(sections, lastCall'.new_parent_id, lastCall'.section_id))
       => (ret' = "None" /\ sections' = sections)]_vars

\* a move under a grandchild was refused in a forest
C1_Witness ==
    /\ lastCall.op = "move_section"
    /\ ret = "None"
    /\ Acyclic(sections)
    /\ Exists(sections, lastCall.section_id)
    /\ Exists(sections, lastCall.new_parent_id)
    /\ IsDescendant(sections, lastCall.new_parent_id, lastCall.section_id)
    /\ sections[lastCall.new_parent_id].parent_id # lastCall.section_id

\* C2: after any sequence of move_section calls on a forest the parent
\* relation is acyclic: no section is its own parent or its own ancestor.
C2_ParentRelationAcyclic == Acyclic(sections)

(***************************************************************************)
(* Section-tree assembly                                                   *)
(***************************************************************************)
DistinctTitles(input) ==
    \A i, j \in 1..Len(input) : i # j => input[i].title # input[j].title

\* the stored rows made from entry i of the flat list
RowsOf(i) == {k \in 1..Len(stored.created) : stored.created[k].content = i}
RowOf(i) == stored.created[CHOOSE k \in RowsOf(i) : TRUE]

\* the most recent entry before i one level up, 0 when there is none
PrecedingOneLevelUp(input, i) ==
    LET above == {j \in 1..(i - 1) : input[j].level = input[i].level - 1}
    IN IF above = {} THEN 0 ELSE CHOOSE j \in above : \A k \in above : k <= j

\* the titles of the stored rows under a parent (None: the roots), by order
TitlesUnder(parent_id) ==
    LET rows == {k \in 1..Len(stored.created) : stored.created[k].parent_id = parent_id}
        seqs == {p \in Perms(rows) :
                    \A i \in 1..(Len(p) - 1) :
                        stored.created[p[i]].order < stored.created[p[i + 1]].order}
        sorted == CHOOSE p \in seqs : TRUE
    IN [i \in 1..Len(sorted) |-> stored.created[sorted[i]].title]

IdOfTitle(title) ==
    (CHOOSE k \in 1..Len(stored.created) : stored.created[k].title = title)

ExampleFlat ==
    <<FlatSection("T1", 1), FlatSection("T2", 2), FlatSection("T3", 2), FlatSection("T4", 1)>>

\* C3: with pairwise distinct titles, _process_sections stores every entry
\* once, every level-1 entry as a root, every entry of level L > 1 under the
\* most recent preceding entry of level L-1 (as a root when none precedes),
\* and siblings keep their document order; [(T1,1),(T2,2),(T3,2),(T4,1)] gives
\* the roots T1, T4, with T2, T3 under T1 and nothing under T4.
C3_ParentIsLastOneLevelUp ==
    (asmPc = "done" /\ DistinctTitles(flat)) =>
        /\ ~stored.raised
        /\ Len(stored.created) = Len(flat)
        /\ \A i \in 1..Len(flat) :
              /\ Cardinality(RowsOf(i)) = 1
              /\ RowOf(i).title = flat[i].title
              /\ RowOf(i).level = flat[i].level
              /\ LET up == PrecedingOneLevelUp(flat, i)
                 IN RowOf(i).parent_id =
                        IF flat[i].level = 1 \/ up = 0 THEN None ELSE RowOf(up).id
        /\ \A i, j \in 1..Len(flat) :
              (i < j /\ RowOf(i).parent_id = RowOf(j).parent_id)
                  => RowOf(i).order < RowOf(j).order
        /\ flat = ExampleFlat =>
              /\ TitlesUnder(None) = <<"T1", "T4">>
              /\ TitlesUnder(IdOfTitle("T1")) = <<"T2", "T3">>
              /\ TitlesUnder(IdOfTitle("T4")) = <<>>

\* the example list has been processed
C3_Witness ==
    /\ asmPc = "done"
    /\ flat = ExampleFlat
    /\ Len(stored.created) = 4

(***************************************************************************)
(* Structured extraction: sections and references                          *)
(***************************************************************************)
\* the lines that open a section: they start with '#' and have a title
RECURSIVE TitledHeadings(_, _)
TitledHeadings(lines, i) ==
    IF i > Len(lines) THEN <<>>
    ELSE IF /\ StartsWithHash(lines[i])
            /\ Strip(SubSeq(lines[i], CountLeading(lines[i], "#", 1) + 1, Len(lines[i]))) # <<>>
         THEN <<i>> \o TitledHeadings(lines, i + 1)
         ELSE TitledHeadings(lines, i + 1)

\* C4: every extracted section has the level given by the number of leading
\* '#' of its own heading line, also when its title occurs in an earlier
\* heading line of another level.
C4_LevelIsOwnHashCount ==
    extPc = "done" =>
        LET own == TitledHeadings(markdown, 1)
        IN /\ Len(structured_data.sections) = Len(own)
           /\ \A k \in 1..Len(own) :
                 structured_data.sections[k].level = CountLeading(markdown[own[k]], "#", 1)

\* the length of a leading '[N]' or 'N.' marker, 0 when the line has none
MarkerLength(line) ==
    LET plain == CountDigits(line, 1)
        inner == CountDigits(line, 2)
    IN IF plain >= 1 /\ plain + 1 <= Len(line) /\ line[plain + 1] = "." THEN plain + 1
       ELSE IF /\ Len(line) >= 1 /\ line[1] = "[" /\ inner >= 1
               /\ inner + 2 <= Len(line) /\ line[inner + 2] = "]" THEN inner + 2
       ELSE 0

\* the references as C5 states them: inside the references block a line with
\* a marker opens a reference holding the text after the marker, and each
\* following non-empty line is joined to it with one space
RECURSIVE ClaimedReferences(_, _, _, _)
ClaimedReferences(lines, i, in_block, refs) ==
    IF i > Len(lines) THEN refs
    ELSE LET line == lines[i]
         IN IF IsReferencesHeading(line) /\ StartsWithHash(line)
            THEN ClaimedReferences(lines, i + 1, TRUE, refs)
            ELSE IF StartsWithHash(line)
            THEN ClaimedReferences(lines, i + 1, FALSE, refs)
            ELSE IF in_block /\ MarkerLength(line) > 0
            THEN ClaimedReferences(lines, i + 1, in_block,
                     Append(refs, Strip(SubSeq(line, MarkerLength(line) + 1, Len(line)))))
            ELSE IF in_block /\ Strip(line) # <<>> /\ refs # <<>>
            THEN ClaimedReferences(lines, i + 1, in_block,
                     [refs EXCEPT ![Len(refs)] = @ \o <<" ">> \o Strip(line)])
            ELSE ClaimedReferences(lines, i + 1, in_block, refs)

ExampleReferences ==
    << <<"#", " ", "References">>,
       <<"1", ".", " ", "Smith et al. Title.">>,
       <<"continued text.">> >>

\* C5: inside a references block each line starting with '[N]' or 'N.' gives
\* exactly one reference and each following non-empty line is appended to the
\* preceding reference with a single space; '1. Smith et al. Title.' followed
\* by 'continued text.' gives the one reference
\* 'Smith et al. Title. continued text.'.
C5_ReferenceContinuation ==
    extPc = "done" =>
        /\ markdown = ExampleReferences =>
              structured_data.references =
                  << <<"Smith et al. Title.", " ", "continued text.">> >>
        /\ structured_data.references = ClaimedReferences(markdown, 1, FALSE, <<>>)

(***************************************************************************)
(* Remote adapter: polling, failures, refusal lines                        *)
(***************************************************************************)
DirectRaised == direct.pc = "done" /\ direct.outcome # "returned"

\* the result endpoint answered with a body parse_pdf can return
UsableResponse ==
    /\ response.kind \notin {"none", "http_error"}
    /\ ProcessResult(cfg.output_format, response).kind # "raised"

\* C6: when the status endpoint has answered k-1 times with a status that is
\* neither success nor failure and then with SUCCESS or completed, with
\* 1 <= k <= 30, DirectLlamaClient.parse_pdf has sent exactly k status
\* requests; it sends no result request before and exactly one after that,
\* and returns the content the result endpoint delivered.
C6_PollsUntilSuccess ==
    /\ direct.pc = "poll" => direct.result_requests = 0
    /\ direct.last_status \in {"SUCCESS", "completed"} =>
          /\ direct.polls = direct.pending_seen + 1
          /\ direct.polls \in 1..30
          /\ direct.pc \in {"fetch", "done"}
          /\ direct.pc = "fetch" => direct.result_requests = 0
          /\ direct.pc = "done" =>
                /\ direct.result_requests = 1
                /\ UsableResponse => direct.outcome = "returned" /\ result.kind # "none"

\* PENDING, PENDING, SUCCESS: three poll calls, one result request, returned
C6_Witness ==
    /\ direct.pc = "done"
    /\ direct.last_status = "SUCCESS"
    /\ direct.pending_seen = 2
    /\ direct.polls = 3
    /\ direct.result_requests = 1
    /\ direct.outcome = "returned"

\* C7: when no status answer is a recognized terminal state,
\* DirectLlamaClient.parse_pdf ends after exactly 30 status requests by
\* raising the timeout error, without a result request and without a result;
\* it never sends a 31st status request.
C7_TimeoutAfterThirtyPolls ==
    /\ direct.polls <= 30
    /\ direct.pc = "poll" => direct.polls < 30
    /\ direct.pending_seen = direct.polls /\ direct.polls = 30 =>
          /\ direct.pc = "done"
          /\ direct.outcome = "timeout"
          /\ direct.result_requests = 0
          /\ result = NoResult
    /\ direct.pc = "done" /\ direct.pending_seen = direct.polls /\ direct.polls > 0 =>
          direct.polls = 30

C7_Witness ==
    /\ direct.pc = "done"
    /\ direct.pending_seen = 30
    /\ direct.polls = 30
    /\ direct.outcome = "timeout"

RemoteFailed ==
    direct.pc = "done" /\ direct.outcome \in {"upload_error", "no_job_id", "job_failed", "timeout"}

\* C8 as stated: whenever the remote attempt failed (upload failure, job
\* failure status or poll timeout), LlamaParseClient.parse_pdf ends by raising
\* an error to its caller.
C8_RemoteFailureRaised ==
    lp.pc = "done" /\ RemoteFailed => lp.outcome = "raised"

\* C8: a failed remote attempt is raised by DirectLlamaClient.parse_pdf;
\* LlamaParseClient.parse_pdf catches it and raises to its own caller exactly
\* when the official package fails as well and PyMuPDF is not available;
\* otherwise it returns the document of the official package or of the local
\* parser.
C8_RemoteFailureFallsBack ==
    /\ RemoteFailed => DirectRaised /\ result = NoResult
    /\ lp.pc = "done" /\ RemoteFailed =>
          /\ lp.outcome = "raised" <=> (lp.package = "failed" /\ ~cfg.has_pymupdf)
          /\ lp.outcome = "returned" => lp.by \in {"package", "local"}
          /\ lp.by = "local" <=> (lp.package = "failed" /\ cfg.has_pymupdf)

\* the poll timeout is caught, the official package fails, the local parser
\* delivers the document
C8_Witness ==
    /\ lp.pc = "done"
    /\ direct.outcome = "timeout"
    /\ lp.package = "failed"
    /\ lp.outcome = "returned"
    /\ lp.by = "local"

\* C9: without a PDF-structure library (PyMuPDF), LlamaParseClient.parse_pdf
\* still returns a document after the remote service failed or without an API
\* key, instead of raising.
C9_NoLibraryNotFatal ==
    lp.pc = "done" /\ ~cfg.has_pymupdf /\ (~cfg.api_key \/ DirectRaised) =>
        lp.outcome = "returned"

\* C10: whatever the shape of the service response, no line of a markdown or
\* text result that DirectLlamaClient.parse_pdf returns contains a refusal or
\* apology phrase.
C10_NoRefusalLineReturned ==
    direct.pc = "done" /\ direct.outcome = "returned"
    /\ cfg.output_format \in {"markdown", "text"} /\ result.kind = "str" =>
        \A i \in 1..Len(result.lines) : ~ContainsRefusal(result.lines[i])

\* the result endpoint delivered the content as a string in one of the three
\* shapes: a JSON string, or a JSON object holding it under the key named as
\* the format or under the legacy key "markdown"
ContentInKnownShape ==
    /\ response.kind \in {"json_string", "json_dict"}
    /\ response.value.kind = "str"
    /\ response.kind = "json_dict" => response.key \in {cfg.output_format, "markdown"}

\* C11: for the formats markdown and text, DirectLlamaClient.parse_pdf returns
\* the content string itself (its refusal lines removed) when the result
\* response is a direct string, an object holding the content under the
\* format-named key or an object holding it under the legacy key "markdown";
\* it never returns the serialized JSON in place of the content.
C11_ContentOfEveryShape ==
    direct.pc = "done" /\ direct.result_requests = 1
    /\ cfg.output_format \in {"markdown", "text"} /\ ContentInKnownShape =>
        /\ direct.outcome = "returned"
        /\ result = StrResult(CleanLines(response.value.lines, 1, FALSE, <<>>))
        /\ result.lines # DumpJson(response)

(***************************************************************************)
(* Raw text extraction                                                     *)
(***************************************************************************)
ContainsFailed(text) ==
    \E i \in 1..Len(text) : LitAt(text, i, <<"F", "a", "i", "l", "e", "d">>)

\* C14: extract_text_from_pdf returns a string and raises no exception,
\* whatever the file (missing, unreadable, any content) and whatever pdftotext
\* does (absent, failing, output that cannot be decoded).
C14_AlwaysReturnsString ==
    txt.pc = "done" =>
        /\ ~txt.raised
        /\ \A i \in 1..Len(txt.text) : txt.text[i] \in STRING

\* pdftotext ran, its output could not be decoded, and the text came out of
\* the file itself
C14_Witness ==
    /\ txt.pc = "done"
    /\ pdf.tool = "undecodable"
    /\ pdf.content # <<>>
    /\ txt.text # <<>>
    /\ ~txt.raised

\* no stage finds text: pdftotext gives none, and the content has no stream
\* text, no parenthesized text and no run of three letters
NoStageYieldsText ==
    LET pdf_str == Join(pdf.content, <<>>, 1)
    IN /\ pdf.file = "readable"
       /\ pdf.tool_text = <<>>
       /\ StripChars(StreamStage(pdf_str)) = <<>>
       /\ StripChars(ParenStage(pdf_str)) = <<>>
       /\ StripChars(WordStage(pdf_str)) = <<>>

\* C15: when every extraction stage yields no text (an empty file, for one),
\* extract_text_from_pdf returns the failure message, a string containing the
\* word "Failed".
C15_FailureMessageWhenNoText ==
    txt.pc = "done" /\ NoStageYieldsText => ContainsFailed(txt.text)

(***************************************************************************)
(* AcademicPaperParser.process: failures                                   *)
(***************************************************************************)
\* C12: when a step of AcademicPaperParser.process raised (opening the PDF,
\* metadata, structure, sections, references, serialization), process returns
\* the document that starts with "# Processing Error" and embeds the error
\* message.
C12_ProcessingErrorDocument ==
    ap.pc = "done" /\ ap.failed # "none" =>
        ap.out.kind = "processing_error" /\ ap.out.error = ap.failed

\* C13: whenever process has returned after the PDF handle was opened, the
\* handle has been closed.
C13_HandleClosedOnReturn ==
    ap.pc = "done" /\ ap.doc # "none" => ap.doc = "closed"

(***************************************************************************)
(* Document processing and view counting                                   *)
(***************************************************************************)
ProcessedDocument == documents[pd.document_id]

\* C16: when process_document has returned for an existing document without
\* completing, it returned False and the document is FAILED with an error
\* message stored in parsing_error; it returned True only with the document
\* COMPLETED; and the document is never left at PROCESSING.
C16_FailureIsRecorded ==
    (pd.pc = "done" /\ pd.existing) =>
        /\ pd.returned = "True" => ProcessedDocument.processing_status = "COMPLETED"
        /\ pd.returned = "False" =>
              /\ ProcessedDocument.processing_status = "FAILED"
              /\ ProcessedDocument.parsing_error # "NULL"
        /\ ProcessedDocument.processing_status # "PROCESSING"

\* C20: increment_view_count on an existing document raises its view_count by
\* exactly one and leaves last_viewed_at non-null; on a missing document it
\* changes nothing and returns None.
C20_ViewCounted ==
    [][\A document_id \in DocumentIds :
          IncrementViewCount(document_id) =>
              IF documents[document_id].exists
              THEN /\ documents'[document_id].view_count = documents[document_id].view_count + 1
                   /\ documents'[document_id].last_viewed_at # "NULL"
              ELSE /\ documents' = documents
                   /\ docCall'.returned = "None"]_vars

(***************************************************************************)
(* Tables of the structured extractor                                      *)
(***************************************************************************)
\* the rows a caption line has: the lines holding '|' from line j up to the
\* next caption line (stop), ending at the first blank line after a row
RECURSIVE ClaimedRows(_, _, _, _)
ClaimedRows(lines, j, stop, rows) ==
    IF j >= stop THEN rows
    ELSE IF Contains(lines[j], <<"|">>)
    THEN ClaimedRows(lines, j + 1, stop, Append(rows, Strip(lines[j])))
    ELSE IF Strip(lines[j]) = <<>> /\ rows # <<>> THEN rows
    ELSE ClaimedRows(lines, j + 1, stop, rows)

NextCaption(lines, i) ==
    LET later == {j \in (i + 1)..Len(lines) : IsTableCaption(lines[j])}
    IN IF later = {} THEN Len(lines) + 1 ELSE CHOOSE j \in later : \A k \in later : j <= k

\* one table per caption line that has rows, in the order of the lines
RECURSIVE ClaimedTables(_, _, _)
ClaimedTables(lines, i, tables) ==
    IF i > Len(lines) THEN tables
    ELSE LET rows == ClaimedRows(lines, i + 1, NextCaption(lines, i), <<>>)
         IN IF IsTableCaption(lines[i]) /\ rows # <<>>
            THEN ClaimedTables(lines, i + 1, Append(tables, TableOf(AfterColon(lines[i]), rows)))
            ELSE ClaimedTables(lines, i + 1, tables)

\* C17: every caption line (holding 'table' and a colon) that is followed by
\* lines holding '|' yields exactly one table, with the text after the colon as
\* caption and those rows in order as content, the table ending at the first
\* blank line after its rows or at the end of the input; so there are as many
\* tables as caption lines that have rows.
C17_OneTablePerCaption ==
    extPc = "done" => structured_data.tables = ClaimedTables(markdown, 1, <<>>)

(***************************************************************************)
(* Re-extracting what the extractor emits                                  *)
(***************************************************************************)
RECURSIVE Hashes(_)
Hashes(level) == IF level = 0 THEN <<>> ELSE <<"#">> \o Hashes(level - 1)

\* the lines of one section written back: '#' * level, a blank, the title,
\* then its content (an empty content being one empty line)
SectionLines(section) ==
    <<Hashes(section.level) \o <<" ">> \o section.title>>
       \o (IF section.content = <<>> THEN << <<>> >> ELSE section.content)

\* markdown_from(sections), from section i on
RECURSIVE MarkdownFrom(_, _)
MarkdownFrom(secs, i) ==
    IF i > Len(secs) THEN <<>> ELSE SectionLines(secs[i]) \o MarkdownFrom(secs, i + 1)

\* extract_structured_data(markdown)["sections"]
SectionsOf(lines) == ExtractSections(lines, 1, <<>>, <<>>, <<>>)

\* C18: writing the extracted sections back as markdown and extracting again
\* never yields fewer sections than the first extraction, and one more round
\* yields the same number again.
C18_ReextractionKeepsSections ==
    extPc = "done" =>
        LET first  == structured_data.sections
            second == SectionsOf(MarkdownFrom(first, 1))
            third  == SectionsOf(MarkdownFrom(second, 1))
        IN /\ Len(second) >= Len(first)
           /\ Len(third) = Len(second)

\* two sections or more, one of them with content, written back as markdown
\* that differs from the input
C18_Witness ==
    /\ extPc = "done"
    /\ Len(structured_data.sections) >= 2
    /\ \E k \in 1..Len(structured_data.sections) : structured_data.sections[k].content # <<>>
    /\ MarkdownFrom(structured_data.sections, 1) # markdown

(***************************************************************************)
(* The section tree                                                        *)
(***************************************************************************)
\* the ids of a forest, parents before their children
RECURSIVE ForestIds(_, _)
ForestIds(forest, i) ==
    IF i > Len(forest) THEN <<>>
    ELSE <<forest[i].id>> \o ForestIds(forest[i].children, 1) \o ForestIds(forest, i + 1)

\* the nodes of a forest
RECURSIVE ForestNodes(_, _)
ForestNodes(forest, i) ==
    IF i > Len(forest) THEN {}
    ELSE {forest[i]} \cup ForestNodes(forest[i].children, 1) \cup ForestNodes(forest, i + 1)

Ascending(secs, nodes) ==
    \A i \in 1..(Len(nodes) - 1) : secs[nodes[i].id].order <= secs[nodes[i + 1].id].order

IdsOf(nodes) == {nodes[i].id : i \in 1..Len(nodes)}

\* C19: after any creations and moves, get_section_tree returns a forest that
\* holds every section of the document exactly once; its roots are the
\* parentless sections in ascending order and every node's children are its
\* child sections in ascending order.
C19_TreeHoldsEverySection ==
    \A all_sections \in AllSections(sections) :
        LET forest == GetSectionTree(sections, all_sections)
            ids    == ForestIds(forest, 1)
        IN /\ \A id \in SectionIds :
                 sections[id].exists => Cardinality({i \in 1..Len(ids) : ids[i] = id}) = 1
           /\ IdsOf(forest) = {id \in SectionIds : sections[id].exists /\ sections[id].parent_id = None}
           /\ Ascending(sections, forest)
           /\ \A node \in ForestNodes(forest, 1) :
                 /\ IdsOf(node.children) =
                       {id \in SectionIds : sections[id].exists /\ sections[id].parent_id = node.id}
                 /\ Ascending(sections, node.children)

(***************************************************************************)
(* Sibling orders after a move                                             *)
(***************************************************************************)
ChildrenOf(secs, parent_id) ==
    {id \in SectionIds : secs[id].exists /\ secs[id].parent_id = parent_id}

\* the orders under a parent are 0..n-1, each once
OrdersContiguous(secs, parent_id) ==
    /\ {secs[id].order : id \in ChildrenOf(secs, parent_id)}
          = 0..(Cardinality(ChildrenOf(secs, parent_id)) - 1)
    /\ \A a, b \in ChildrenOf(secs, parent_id) : secs[a].order = secs[b].order => a = b

AllContiguous(secs) == \A parent_id \in SectionIds \cup {None} : OrdersContiguous(secs, parent_id)

\* C21: after a successful move_section(s, p, k) with 0 <= k <= number of p's
\* other children, on a forest whose sibling orders were contiguous, the orders
\* under s's old parent are exactly 0..n-1 and those under the new parent, the
\* moved section included at order k, exactly 0..m-1; root level included.
C21_OrdersContiguousAfterMove ==
    [][(/\ lastCall'.op = "move_section"
        /\ ret' = "Section"
        /\ Acyclic(sections)
        /\ AllContiguous(sections)
        /\ lastCall'.section_id # lastCall'.new_parent_id
        /\ sections'[lastCall'.section_id].order
              <= Cardinality(ChildrenOf(sections, lastCall'.new_parent_id) \ {lastCall'.section_id}))
       => (/\ OrdersContiguous(sections', sections[lastCall'.section_id].parent_id)
           /\ OrdersContiguous(sections', lastCall'.new_parent_id)
           /\ sections'[lastCall'.section_id].parent_id = lastCall'.new_parent_id)]_vars

(***************************************************************************)
(* Stored sections: order, parent level, one row per entry                 *)
(***************************************************************************)
StoredRows == {stored.created[k] : k \in 1..Len(stored.created)}

\* the rows stored under the same parent from entries earlier in the list
EarlierSiblings(row) ==
    {other \in StoredRows : other.parent_id = row.parent_id /\ other.content < row.content}

\* C22: the order of every section stored by _process_sections is its
\* zero-based position among the stored sections with the same parent: under
\* each parent, and at root level, the orders are 0, 1, 2, ... in document order.
C22_OrderIsPositionAmongSiblings ==
    (asmPc = "done" /\ ~stored.raised) =>
        \A row \in StoredRows : row.order = Cardinality(EarlierSiblings(row))

\* C23: for every flat list, repeated titles and skipped levels included,
\* every section stored with a parent has a level one greater than the level
\* of the stored parent.
C23_ParentIsOneLevelUp ==
    (asmPc = "done" /\ ~stored.raised) =>
        \A row \in StoredRows :
            row.parent_id # None =>
                \E parent \in StoredRows : parent.id = row.parent_id /\ row.level = parent.level + 1

\* C30: for every flat list, repeated titles included, _process_sections
\* stores exactly one section per entry, with the entry's title, level,
\* content and position.
C30_OneRowPerEntry ==
    asmPc = "done" =>
        /\ ~stored.raised
        /\ Len(stored.created) = Len(flat)
        /\ \A i \in 1..Len(flat) :
              \E row \in StoredRows :
                  /\ row.content = i
                  /\ row.title = flat[i].title
                  /\ row.level = flat[i].level

(***************************************************************************)
(* Sections and their content                                              *)
(***************************************************************************)
\* the lines that start with '#', in document order
RECURSIVE HeadingLines(_, _)
HeadingLines(lines, i) ==
    IF i > Len(lines) THEN <<>>
    ELSE IF StartsWithHash(lines[i]) THEN <<i>> \o HeadingLines(lines, i + 1)
    ELSE HeadingLines(lines, i + 1)

\* the lines after heading k up to the next heading or the end, joined
ContentBetween(lines, heads, k) ==
    LET last == IF k < Len(heads) THEN heads[k + 1] - 1 ELSE Len(lines)
    IN JoinRows(SubSeq(lines, heads[k] + 1, last), 1)

\* C24: the extractor returns one section per line that starts with '#', in
\* document order, and the content of each is all the lines between its
\* heading and the next heading (or the end), joined in order, none dropped.
C24_ContentIsAllLinesBetween ==
    extPc = "done" =>
        LET heads == HeadingLines(markdown, 1)
        IN /\ Len(structured_data.sections) = Len(heads)
           /\ \A k \in 1..Len(heads) :
                 JoinRows(structured_data.sections[k].content, 1) = ContentBetween(markdown, heads, k)

(***************************************************************************)
(* References of the layout parser, end to end                             *)
(***************************************************************************)
\* a heading by its font or its standard name, numbered lines not counted
HeadingByFontOrName(span) ==
    span.size > 12 \/ IsStandardHeading(Strip(span.text))

\* the References heading of the document, 0 when there is none
ReferencesHeadingLine(lines) ==
    LET hits == {i \in 1..Len(lines) :
                    /\ HeadingByFontOrName(lines[i])
                    /\ Lower(Strip(lines[i].text)[1]) \in {"references", "bibliography"}}
    IN IF hits = {} THEN 0 ELSE CHOOSE i \in hits : \A j \in hits : i <= j

\* the body-font lines from line i up to the next heading: a line with a
\* marker starts an entry, another non-empty line continues the last entry
RECURSIVE ClaimedLayoutReferences(_, _, _)
ClaimedLayoutReferences(lines, i, references) ==
    IF i > Len(lines) \/ HeadingByFontOrName(lines[i]) THEN references
    ELSE LET text == Strip(lines[i].text)
             skip == ReferenceMarker(text)
         IN IF skip > 0
            THEN ClaimedLayoutReferences(lines, i + 1,
                    Append(references, Strip(SubSeq(text, skip + 1, Len(text)))))
            ELSE IF references # <<>> /\ text # <<>>
            THEN ClaimedLayoutReferences(lines, i + 1,
                    [references EXCEPT ![Len(references)] = @ \o <<" ">> \o text])
            ELSE ClaimedLayoutReferences(lines, i + 1, references)

\* C25: after section detection and reference processing, every body-font line
\* after the References heading that begins with '[N]' or 'N.' has started an
\* entry of the references list, and every other non-empty line there has been
\* appended, space-joined, to the entry before it.
C25_ReferenceLinesBecomeEntries ==
    (detected.pc = "references" /\ ReferencesHeadingLine(layout) # 0) =>
        detected.references =
            ClaimedLayoutReferences(layout, ReferencesHeadingLine(layout) + 1, <<>>)

(***************************************************************************)
(* The refusal filter                                                      *)
(***************************************************************************)
\* the content went through the filter: a markdown or text result taken from
\* the field named as the format
FilterApplied ==
    /\ direct.pc = "done" /\ direct.outcome = "returned"
    /\ cfg.output_format \in {"markdown", "text"}
    /\ response.kind = "json_dict" /\ response.key = cfg.output_format
    /\ response.value.kind = "str"

\* a boundary line: exactly '---', or starting with '#'
IsExactBoundary(line) == line = <<"---">> \/ StartsWithHash(line)
\* a boundary line: '---' once surrounding whitespace is stripped, or starting with '#'
IsStrippedBoundary(line) == Strip(line) = <<"---">> \/ StartsWithHash(line)

\* line i is a refusal line, or follows one with no kept boundary line from
\* there up to and including line i
DroppedWith(IsBoundary(_), lines, i) ==
    \/ ContainsRefusal(lines[i])
    \/ \E j \in 1..(i - 1) :
          /\ ContainsRefusal(lines[j])
          /\ \A k \in (j + 1)..i : ContainsRefusal(lines[k]) \/ ~IsBoundary(lines[k])

RECURSIVE KeptWith(_, _, _)
KeptWith(IsBoundary(_), lines, i) ==
    IF i > Len(lines) THEN <<>>
    ELSE (IF DroppedWith(IsBoundary, lines, i) THEN <<>> ELSE <<lines[i]>>)
            \o KeptWith(IsBoundary, lines, i + 1)

\* C26 as stated: a line is dropped if and only if it contains a refusal
\* phrase or lies after a refusal line with no boundary line (exactly '---',
\* or starting with '#') in between; a boundary line without a refusal phrase
\* ends the skipping and is kept; the kept lines keep their order.
C26_DroppedIffRefusalOrSkipped ==
    FilterApplied => result.lines = KeptWith(IsExactBoundary, response.value.lines, 1)

\* C26, with the boundary taken as the code takes it: a line that is '---'
\* after stripping surrounding whitespace, or that starts with '#'.
C26_DroppedIffRefusalOrSkippedStripped ==
    FilterApplied => result.lines = KeptWith(IsStrippedBoundary, response.value.lines, 1)

\* a refusal line, then a boundary line that ended the skipping, and a line
\* kept after it
C26_Witness ==
    /\ FilterApplied
    /\ Len(response.value.lines) = 3
    /\ ContainsRefusal(response.value.lines[1])
    /\ IsStrippedBoundary(response.value.lines[2]) /\ ~ContainsRefusal(response.value.lines[2])
    /\ result.lines = <<response.value.lines[2], response.value.lines[3]>>

(***************************************************************************)
(* The abstract after an 'Abstract:' label                                 *)
(***************************************************************************)
\* no heading line of the markdown is an Abstract heading
NoAbstractHeading(lines) ==
    \A i \in 1..Len(lines) : ~(StartsWithHash(lines[i]) /\ IsAbstractHeading(lines[i]))

\* the lines that begin with 'Abstract:'
LabelLines(lines) ==
    {i \in 1..Len(lines) : Len(lines[i]) >= 2 /\ IsAbstractWord(lines[i][1]) /\ lines[i][2] = ":"}

\* the text after the label of line i, then the lines after it up to the first
\* blank line or heading line
ClaimedAbstract(lines, i) ==
    JoinSpaced(LinesUntilBreak(lines, i + 1,
                  IF AfterColon(lines[i]) # <<>> THEN <<AfterColon(lines[i])>> ELSE <<>>), 1)

\* C27: for markdown without an Abstract heading but with a line beginning
\* with 'Abstract:', the abstract is the text after the label on that line
\* followed by the subsequent lines up to, and not including, the first blank
\* line or heading line.
C27_AbstractAfterLabel ==
    (extPc = "done" /\ NoAbstractHeading(markdown) /\ LabelLines(markdown) # {}) =>
        structured_data.abstract =
            ClaimedAbstract(markdown,
                CHOOSE i \in LabelLines(markdown) : \A j \in LabelLines(markdown) : i <= j)

(***************************************************************************)
(* Storing the results                                                     *)
(***************************************************************************)
\* C28: storing the results is all-or-nothing: when a storing step (document
\* update, section, reference or figure/table creation) raised, none of the
\* run's writes (markdown content, COMPLETED status, sections, references,
\* figures) is committed.
C28_StoreIsAllOrNothing ==
    pd.stored = "raised" => pd.committed = {}

(***************************************************************************)
(* The value parse_pdf returns                                             *)
(***************************************************************************)
\* C29: every value parse_pdf returns when called with return_structured=True
\* and a markdown or text format is a pair (text, structured_data), whichever
\* method produced the text (direct client, official package, local parser).
C29_StructuredReturnIsPair ==
    (/\ lp.outcome = "returned"
     /\ cfg.return_structured
     /\ cfg.output_format \in {"markdown", "text"})
        => lp.shape = "pair"

====
